---- MODULE Spec2Model ----
(***************************************************************************)
(* Model of aitjcize/alec: the Bitfinex REST client's request loops        *)
(* (alec/api/bitfinex_v1_rest.py, bitfinex_v2_rest.py), the retry helpers  *)
(* of the grid trading bots and their reconciliation loop                  *)
(* (alec/scripts/trade_bot.py, trade_jbot.py).                             *)
(*                                                                         *)
(* The websocket bot (alec/scripts/trade_hbot.py) is modelled by its        *)
(* callbacks and the steps of its main loop.                               *)
(*                                                                         *)
(* The specifications share the variables:                                 *)
(*   SpecApi    one HTTP request at a time, one action per loop iteration  *)
(*   SpecPoll   _get_order_status / _cancel_order, one action per attempt  *)
(*   Spec       the reconciliation loop of trade_bot / trade_jbot against  *)
(*              an exchange whose orders fill and get cancelled            *)
(*   SpecPair   one call of _create_two_paired_orders                      *)
(*   SpecLedger _check_new_watched_orders and _create_initial_orders over  *)
(*              the orders the account holds                               *)
(*   SpecRun    one iteration of run() of the bots and its error handlers  *)
(*   SpecHbot   trade_hbot: snapshots, order updates, notifications and    *)
(*              the routine checks of TradeBot.run                         *)
(*   SpecTick   trade_hbot: ticks, wallets and the queues of account       *)
(*              events between connect and disconnect                      *)
(*   SpecWallet wallet_stats: Intervals.add, Intervals.sub, Wallet.fetch   *)
(*   SpecFetch  SpecWallet with the loop of _fetch_one_currency fair       *)
(*   SpecLend   trade_hbot: LendBotControl.check_balance over time         *)
(***************************************************************************)
EXTENDS Integers, Sequences, FiniteSets, TLC

VARIABLES http, poll

\* the bot process: which script runs, where its loop stands, its ledgers
VARIABLES bot, pc, watched, paired, todo, polled

\* the exchange: the state of every order id, the next id it issues, and
\* how many orders the user placed by hand
VARIABLES exch, nextId, nUser

\* the database: tables cancelled_orders (trade_jbot) and executed_orders
VARIABLES cancelled_orders, executed_orders

\* history: the _cancel_order calls made and how they ended, the last
\* reaction and the summary of the running pass of _check_watched_orders
VARIABLES cancelReq, cancelOk, cancelFailed, last, iter

\* one call sequence of _create_two_paired_orders with its prices, cached
\* balances and exchange replies
VARIABLES pair

\* one call sequence of _check_new_watched_orders / _create_initial_orders
\* on a ledger of order snapshots: the exchange's order list, the two
\* tables of the bot, and what was called last
VARIABLES orders, watched_orders, paired_orders, call

\* the loop of run(): the last iteration, how it ended, what was notified
VARIABLES run

\* trade_hbot: the connection, the order table, the unconfirmed list, the
\* exchange side of the pair and what the last handler did
VARIABLES hb

\* trade_hbot between ticks: the snapshot flags of the socket and of the
\* bot, the pairs to initialise, the queues of account events, the order
\* table and what the last handler did
VARIABLES ht

\* wallet_stats: the fetched intervals of one currency, the history the
\* exchange holds and the position of Wallet.fetch
VARIABLES ws

\* trade_hbot, LendBotControl: its settings, the clock, the time of the last
\* transfer, the stop file and what the last check_balance did
VARIABLES lb

apiVars == <<http>>
pollVars == <<poll>>
pairVars == <<pair>>
ledgerVars == <<orders, watched_orders, paired_orders, call>>
runVars == <<run>>
hbotVars == <<hb>>
tickVars == <<ht>>
walletVars == <<ws>>
lendVars == <<lb>>
botVars == <<bot, pc, watched, paired, todo, polled, exch, nextId, nUser,
             cancelled_orders, executed_orders, cancelReq, cancelOk,
             cancelFailed, last, iter>>

(***************************************************************************)
(* Exchange client: public_req and auth_req                                *)
(***************************************************************************)

MAX_RETRY == 5

RATE_LIMIT_SLEEP == 20

\* the client methods the bots call, with the request function behind each
Ops == {"new_limit_order", "new_market_order", "order_status",
        "cancel_order", "ticker", "wallets"}

ApiOf(op) ==
    CASE op = "ticker" -> "public_req"
      [] op = "wallets" -> "v2_auth_req"
      [] OTHER -> "v1_auth_req"

\* a client whose order placement passes allow_retry=True like every read
AllowRetry_Always(op) == TRUE

\* the allow_retry argument each method passes to auth_req
AllowRetry(op) == op \notin {"new_limit_order", "new_market_order"}

Unbound == [status |-> 0, body |-> "unbound"]

\* what one requests.get / requests.post can produce
ConnectionError == [status |-> 0, body |-> "ConnectionError"]

Timeout == [status |-> 0, body |-> "Timeout"]

Exceptions == {ConnectionError, Timeout}

V1Responses ==
    { [status |-> 200, body |-> "ok"],
      [status |-> 400, body |-> "Ratelimit"],
      [status |-> 400, body |-> "Invalid order"],
      [status |-> 500, body |-> "error"],
      [status |-> 503, body |-> "unavailable"] }

\* a v2 error body is ['error', code, text]; the body field holds the code
V2Responses ==
    { [status |-> 200, body |-> "ok"],
      [status |-> 500, body |-> "11000"],
      [status |-> 500, body |-> "11010"],
      [status |-> 500, body |-> "10001"],
      [status |-> 503, body |-> "unavailable"] }

ResponsesOf(api) == IF api = "v2_auth_req" THEN V2Responses ELSE V1Responses

IsResponse(ev) == ev \notin Exceptions

Is5xx(resp) == 500 <= resp.status /\ resp.status <= 599

\* the rate-limit answer of each API version
IsRateLimit(api, resp) ==
    IF api = "v2_auth_req"
    THEN resp.status = 500 /\ resp.body = "11010"
    ELSE resp.status = 400 /\ resp.body = "Ratelimit"

Pow2(n) == 2 ^ n

\* no nonce was sent yet
NoNonce == -1

\* milliseconds one requests.post takes on the clock of _nonce: less than
\* one tick, or at least one
RoundTrips == {0, 1}

\* a difference of two values of int(round(time.time() * 1000)), kept up
\* to "two or more"
Saturate(ms) == IF ms >= 2 THEN 2 ELSE ms

\* sinceSent: milliseconds since the last signed request of the client
\* sentBy; nonceStep: nonce of the last signed request minus the nonce of
\* the one before it
HttpIdle ==
    [op |-> "none", api |-> "none", allow_retry |-> FALSE, i |-> 0,
     events |-> << >>, sleeps |-> << >>, resp |-> Unbound, respAt |-> 0,
     outcome |-> "idle", exc |-> "none", excStatus |-> 0, excBody |-> "none",
     sinceSent |-> NoNonce, sentBy |-> "none", nonceStep |-> NoNonce,
     nonceKind |-> "none"]

\* the decision of one loop iteration: "continue" with a sleep, "break",
\* or "raise" out of the loop
V1AuthStep(allow_retry, i, ev) ==
    IF ev \in Exceptions
    THEN IF allow_retry
         THEN [do |-> "continue", sleep |-> Pow2(i), exc |-> "none"]
         ELSE [do |-> "raise", sleep |-> 0, exc |-> "BitfinexClientError"]
    ELSE IF allow_retry /\ Is5xx(ev)
         THEN [do |-> "continue", sleep |-> Pow2(i), exc |-> "none"]
         ELSE IF allow_retry /\ ev.status = 400 /\ ev.body = "Ratelimit"
              THEN [do |-> "continue", sleep |-> RATE_LIMIT_SLEEP,
                    exc |-> "none"]
              ELSE [do |-> "break", sleep |-> 0, exc |-> "none"]

V2AuthStep(allow_retry, i, ev) ==
    IF ev \in Exceptions
    THEN IF allow_retry
         THEN [do |-> "continue", sleep |-> Pow2(i), exc |-> "none"]
         ELSE [do |-> "raise", sleep |-> 0, exc |-> ev.body]
    ELSE IF allow_retry /\ ev.status = 500
              /\ ev.body \in {"11000", "20060"}
         THEN [do |-> "continue", sleep |-> Pow2(i), exc |-> "none"]
         ELSE IF allow_retry /\ ev.status = 500 /\ ev.body = "11010"
              THEN [do |-> "continue", sleep |-> RATE_LIMIT_SLEEP,
                    exc |-> "none"]
              ELSE IF allow_retry /\ 501 <= ev.status /\ ev.status <= 599
                   THEN [do |-> "continue", sleep |-> Pow2(i),
                         exc |-> "none"]
                   ELSE [do |-> "break", sleep |-> 0, exc |-> "none"]

\* public_req catches requests.exceptions.Timeout only
PublicStep(i, ev) ==
    IF ev = Timeout
    THEN [do |-> "continue", sleep |-> Pow2(i), exc |-> "none"]
    ELSE IF ev = ConnectionError
         THEN [do |-> "raise", sleep |-> 0, exc |-> "ConnectionError"]
         ELSE IF Is5xx(ev)
              THEN [do |-> "continue", sleep |-> Pow2(i), exc |-> "none"]
              ELSE [do |-> "break", sleep |-> 0, exc |-> "none"]

LoopStep(api, allow_retry, i, ev) ==
    CASE api = "public_req" -> PublicStep(i, ev)
      [] api = "v2_auth_req" -> V2AuthStep(allow_retry, i, ev)
      [] OTHER -> V1AuthStep(allow_retry, i, ev)

\* the code after the loop: it reads resp, whatever attempt bound it
AfterLoop(h) ==
    IF h.resp = Unbound
    THEN [h EXCEPT !.outcome = "raise", !.exc = "UnboundLocalError"]
    ELSE IF h.resp.status # 200
         THEN [h EXCEPT !.outcome = "raise", !.exc = "BitfinexClientError",
                        !.excStatus = h.resp.status,
                        !.excBody = h.resp.body]
         ELSE [h EXCEPT !.outcome = "return"]

\* a client method is called
HttpCall(op) ==
    /\ http.outcome # "running"
    /\ http' = [HttpIdle EXCEPT !.op = op, !.api = ApiOf(op),
                                !.allow_retry = AllowRetry(op),
                                !.outcome = "running",
                                !.sinceSent = http.sinceSent,
                                !.sentBy = http.sentBy]
    /\ UNCHANGED <<pollVars, botVars, pairVars, ledgerVars, runVars, hbotVars, tickVars, walletVars, lendVars>>

\* one iteration of "for i in range(MAX_RETRY)", and the code after the loop
\* when this iteration is the last one
HttpAttempt(ev, rtt) ==
    /\ http.outcome = "running"
    /\ http.i < MAX_RETRY
    /\ ev \in Exceptions \cup ResponsesOf(http.api)
    /\ LET d == LoopStep(http.api, http.allow_retry, http.i, ev)
           n == Len(http.events) + 1
           signed == http.api # "public_req"
           passed == rtt + (IF d.do = "continue" THEN 1000 * d.sleep ELSE 0)
           h1 == [http EXCEPT
                    !.events = Append(@, ev),
                    !.resp = IF IsResponse(ev) THEN ev ELSE @,
                    !.respAt = IF IsResponse(ev) THEN n ELSE @,
                    !.sleeps = IF d.do = "continue"
                               THEN Append(@, d.sleep) ELSE @,
                    !.nonceStep = IF signed /\ http.sentBy = http.api
                                  THEN http.sinceSent ELSE NoNonce,
                    !.nonceKind = IF ~signed THEN "none"
                                  ELSE IF http.i = 0 THEN "call"
                                  ELSE "retry",
                    !.sentBy = IF signed THEN http.api ELSE @,
                    !.sinceSent = IF signed THEN Saturate(passed)
                                  ELSE IF @ = NoNonce THEN @
                                  ELSE Saturate(@ + passed)]
       IN  http' =
             CASE d.do = "raise" ->
                    [h1 EXCEPT !.outcome = "raise", !.exc = d.exc,
                               !.excBody = IF d.exc = "BitfinexClientError"
                                           THEN "Connection error"
                                           ELSE "none"]
               [] d.do = "break" -> AfterLoop(h1)
               [] OTHER ->
                    IF http.i + 1 < MAX_RETRY
                    THEN [h1 EXCEPT !.i = http.i + 1]
                    ELSE AfterLoop([h1 EXCEPT !.i = http.i + 1])
    /\ UNCHANGED <<pollVars, botVars, pairVars, ledgerVars, runVars, hbotVars, tickVars, walletVars, lendVars>>

HttpDone == http.outcome \in {"return", "raise"}

NextApi ==
    \/ \E op \in Ops : HttpCall(op)
    \/ \E ev \in Exceptions \cup V1Responses \cup V2Responses,
          rtt \in RoundTrips : HttpAttempt(ev, rtt)

(***************************************************************************)
(* _get_order_status and _cancel_order: the retry loops of the bots        *)
(***************************************************************************)

Bots == {"trade_bot", "trade_jbot"}

MAX_ORDER_STATUS_RETRIES == 30

\* both bots with the bound of trade_jbot
MAX_CANCEL_ORDER_RETRIES_Same(b) == 10

MAX_CANCEL_ORDER_RETRIES(b) == IF b = "trade_bot" THEN 5 ELSE 10

\* what one client call gives the helper
StatusReplies == {"status", "No such order found", "BitfinexClientError",
                  "Exception"}

CancelReplies == {"ok", "Order could not be cancelled.",
                  "BitfinexClientError", "Exception"}

PollIdle ==
    [fn |-> "none", bot |-> "none", calls |-> 0, sleeps |-> 0,
     saved |-> FALSE, outcome |-> "idle", ret |-> "none", last |-> "none"]

PollCall(b, fn) ==
    /\ poll.outcome # "running"
    /\ poll' = [PollIdle EXCEPT !.fn = fn, !.bot = b, !.outcome = "running",
                   \* trade_jbot stores the id before the first attempt
                   !.saved = (fn = "_cancel_order" /\ b = "trade_jbot")]
    /\ UNCHANGED <<apiVars, botVars, pairVars, ledgerVars, runVars, hbotVars, tickVars, walletVars, lendVars>>

\* a helper that gives up on the first 'No such order found'
GetOrderStatusAttempt_NoRetry(reply) ==
    /\ poll.outcome = "running"
    /\ poll.fn = "_get_order_status"
    /\ poll.calls < MAX_ORDER_STATUS_RETRIES
    /\ LET p1 == [poll EXCEPT !.calls = @ + 1, !.last = reply]
       IN  poll' =
             CASE reply = "status" ->
                    [p1 EXCEPT !.outcome = "return", !.ret = "status"]
               [] reply = "No such order found" ->
                    [p1 EXCEPT !.outcome = "return", !.ret = "None"]
               [] OTHER -> [p1 EXCEPT !.outcome = "raise"]
    /\ UNCHANGED <<apiVars, botVars, pairVars, ledgerVars, runVars, hbotVars, tickVars, walletVars, lendVars>>

\* one iteration of "for i in xrange(MAX_ORDER_STATUS_RETRIES)"
GetOrderStatusAttempt(reply) ==
    /\ poll.outcome = "running"
    /\ poll.fn = "_get_order_status"
    /\ poll.calls < MAX_ORDER_STATUS_RETRIES
    /\ LET p1 == [poll EXCEPT !.calls = @ + 1, !.last = reply]
       IN  poll' =
             CASE reply = "status" ->
                    [p1 EXCEPT !.outcome = "return", !.ret = "status"]
               [] reply = "No such order found" ->
                    IF p1.calls < MAX_ORDER_STATUS_RETRIES
                    THEN [p1 EXCEPT !.sleeps = @ + 1]
                    ELSE [p1 EXCEPT !.sleeps = @ + 1, !.outcome = "return",
                                    !.ret = "None"]
               [] OTHER -> [p1 EXCEPT !.outcome = "raise"]
    /\ UNCHANGED <<apiVars, botVars, pairVars, ledgerVars, runVars, hbotVars, tickVars, walletVars, lendVars>>

\* one iteration of "for i in xrange(MAX_CANCEL_ORDER_RETRIES)"
CancelOrderAttempt(reply) ==
    /\ poll.outcome = "running"
    /\ poll.fn = "_cancel_order"
    /\ poll.calls < MAX_CANCEL_ORDER_RETRIES(poll.bot)
    /\ LET p1 == [poll EXCEPT !.calls = @ + 1, !.last = reply]
       IN  poll' =
             CASE reply = "ok" ->
                    [p1 EXCEPT !.outcome = "return", !.ret = "cancelled"]
               [] reply = "Order could not be cancelled." ->
                    IF p1.calls < MAX_CANCEL_ORDER_RETRIES(poll.bot)
                    THEN [p1 EXCEPT !.sleeps = @ + 1]
                    ELSE [p1 EXCEPT !.sleeps = @ + 1, !.outcome = "return",
                                    !.ret = "gave up"]
               [] OTHER -> [p1 EXCEPT !.outcome = "raise"]
    /\ UNCHANGED <<apiVars, botVars, pairVars, ledgerVars, runVars, hbotVars, tickVars, walletVars, lendVars>>

NextPoll ==
    \/ \E b \in Bots, fn \in {"_get_order_status", "_cancel_order"} :
          PollCall(b, fn)
    \/ \E reply \in StatusReplies : GetOrderStatusAttempt(reply)
    \/ \E reply \in CancelReplies : CancelOrderAttempt(reply)

(***************************************************************************)
(* The reconciliation loop of trade_bot / trade_jbot                       *)
(***************************************************************************)

\* order ids the exchange can issue, and hand-placed orders, in one run
MaxId == 4

MaxUser == 1

Ids == 1..MaxId

NoId == 0

NoPairs == [i \in Ids |-> NoId]

LastNone ==
    [id |-> NoId, obs |-> "none", sib |-> NoId, cancel |-> "none",
     placed |-> {}, suppressed |-> FALSE, completed |-> FALSE,
     found |-> TRUE, sibWatched |-> FALSE, steps |-> << >>]

\* what the current pass over the ledger did so far; aborted is the turn
\* that a rate-limit error cut short, kept until the next pass begins
IterNone ==
    [start |-> 0, execs |-> {}, sibs |-> {}, early |-> {}, cancs |-> {},
     supp |-> {}, skips |-> 0, aborted |-> LastNone]

\* what can have happened to a resting order since the bot last read it:
\* nothing, the market filled it, the user cancelled it by hand
Moves == {"none", "executes", "cancels"}

Moved(x, id, move) ==
    IF x[id] = "live" /\ move # "none"
    THEN [x EXCEPT ![id] = IF move = "executes" THEN "executed"
                           ELSE "cancelled"]
    ELSE x

\* how one call of the exchange client can fail
Faults == {"ratelimit", "fatal"}

\* how one leg of a new pair can end: the order is placed; the leg is
\* skipped for lack of balance; the placement raises
LegOutcomes == {"placed", "skip", "ratelimit", "fatal"}

LegRaised(out) == out \in {"ratelimit", "fatal"}

LegCreated(out) == out = "placed"

LegFault(out) == out

\* new_limit_order at the exchange: the order rests under the next id (an
\* id beyond MaxId is never kept: the actions stop at MaxId)
Place(x, n) == IF n \in Ids THEN [x EXCEPT ![n] = "live"] ELSE x

\* a bot that places an order without adding it to its ledger
Watch_Nothing(w, id) == w

\* self._watched_orders[id] = status
Watch(w, id) == w \cup {id}

\* a bot that records the pairing from the sell order only
Pair_OneWay(p, a, b) == [p EXCEPT ![a] = b]

\* self._paired_orders[sell_order_id] = buy_order_id, and the reverse
Pair(p, a, b) == [p EXCEPT ![a] = b, ![b] = a]

\* _create_two_paired_orders on ledger w, pairing table p, exchange x and
\* next order id n: the sell leg, then the buy leg, then the pairing
CreateTwoPairedOrders(w, p, x, n, sellOut, buyOut) ==
    LET sellId == n
        x1 == IF LegCreated(sellOut) THEN Place(x, sellId) ELSE x
        n1 == IF LegCreated(sellOut) THEN n + 1 ELSE n
        w1 == IF sellOut = "placed" THEN Watch(w, sellId) ELSE w
        buyId == n1
        x2 == IF LegCreated(buyOut) THEN Place(x1, buyId) ELSE x1
        n2 == IF LegCreated(buyOut) THEN n1 + 1 ELSE n1
        w2 == IF buyOut = "placed" THEN Watch(w1, buyId) ELSE w1
        p2 == IF sellOut = "placed" /\ buyOut = "placed" /\ buyId \in Ids
              THEN Pair(p, sellId, buyId)
              ELSE p
    IN  IF LegRaised(sellOut)
        THEN [watched |-> w1, paired |-> p, exch |-> x1, nextId |-> n1,
              exc |-> LegFault(sellOut), skips |-> 0,
              placed |-> w1 \ w]
        ELSE IF LegRaised(buyOut)
             THEN [watched |-> w1, paired |-> p, exch |-> x2, nextId |-> n2,
                   exc |-> LegFault(buyOut),
                   skips |-> IF sellOut = "skip" THEN 1 ELSE 0,
                   placed |-> w1 \ w]
             ELSE [watched |-> w2, paired |-> p2, exch |-> x2, nextId |-> n2,
                   exc |-> "none",
                   skips |-> (IF sellOut = "skip" THEN 1 ELSE 0)
                             + (IF buyOut = "skip" THEN 1 ELSE 0),
                   placed |-> w2 \ w]

\* a bot that never writes the table
SaveShouldBeCancelledOrder_Skip(cdb, id) == cdb

\* _save_should_be_cancelled_order: INSERT INTO cancelled_orders
SaveShouldBeCancelledOrder(cdb, id) == cdb \cup {id}

\* a bot that never finds an id in the table
IsShouldBeCancelledOrder_Never(cdb, id) == FALSE

\* _is_should_be_cancelled_order: SELECT 1 FROM cancelled_orders WHERE id = ?
IsShouldBeCancelledOrder(cdb, id) == id \in cdb

\* _cancel_order(id) as a whole: trade_jbot stores the id first; the exchange
\* cancels a live order and answers 'Order could not be cancelled.' for any
\* other, which the helper retries until it gives up; another error is raised
CancelOrder(b, id, x, cdb, fault) ==
    LET cdb1 == IF b = "trade_jbot"
                THEN SaveShouldBeCancelledOrder(cdb, id) ELSE cdb
    IN  IF fault # "none"
        THEN [exch |-> x, cdb |-> cdb1, res |-> fault]
        ELSE IF x[id] = "live"
             THEN [exch |-> [x EXCEPT ![id] = "cancelled"], cdb |-> cdb1,
                   res |-> "ok"]
             ELSE [exch |-> x, cdb |-> cdb1, res |-> "gave up"]

\* a bot that takes every order that no longer rests for a cancelled one
OrderWasCancelled_NotLive(st) == st # "live"

\* _order_was_cancelled / _order_was_executed on the status the exchange gives
OrderWasCancelled(st) == st = "cancelled"

OrderWasExecuted(st) == st = "executed"

\* the ids _should_watch_this_order accepts among the orders() answer
LiveOrders(x) == {i \in Ids : x[i] = "live"}

\* a bot that leaves the order in its ledger
Unwatch_Keep(w, id) == w

\* self._watched_orders.pop(id)
Unwatch(w, id) == w \ {id}

\* a helper that hands out the order as the exchange last had it when the
\* exchange does not find it
GetOrderStatus_Stale(x, id, found) == x[id]

\* _get_order_status(id) as a whole: the status of the order, or None when
\* the exchange did not find it on any attempt
GetOrderStatus(x, id, found) == IF found THEN x[id] ELSE "None"

\* the two pops of the pairing entries; the second raises KeyError when the
\* partner has no entry
PopPair(p, id) ==
    LET another_id == p[id]
    IN  IF p[another_id] = NoId
        THEN [paired |-> [p EXCEPT ![id] = NoId], exc |-> "fatal"]
        ELSE [paired |-> [p EXCEPT ![id] = NoId, ![another_id] = NoId],
              exc |-> "none"]

\* the body of the loop of _check_watched_orders for one id; last.steps
\* lists what the turn did, in the order of the code
React(b, x, id, found, fault, sellOut, buyOut) ==
    LET st == GetOrderStatus(x, id, found)
        base == [watched |-> watched, paired |-> paired, exch |-> x,
                 nextId |-> nextId, cdb |-> cancelled_orders,
                 sink |-> executed_orders, exc |-> "none", skips |-> 0,
                 creq |-> {}, cok |-> {}, cfail |-> {},
                 last |-> [LastNone EXCEPT
                             !.id = id, !.found = found,
                             !.sib = paired[id],
                             !.sibWatched = paired[id] \in watched]]
    IN  IF fault = "status_ratelimit" \/ fault = "status_fatal"
        THEN [base EXCEPT !.exc = IF fault = "status_ratelimit"
                                  THEN "ratelimit" ELSE "fatal",
                          !.last.obs = "error"]
        ELSE IF st = "None"
        THEN [base EXCEPT !.last.obs = "notfound", !.last.completed = TRUE]
        ELSE IF OrderWasCancelled(st)
        THEN LET w1 == Unwatch(watched, id)
             IN  IF b = "trade_jbot" /\ paired[id] # NoId
                 THEN LET pp == PopPair(paired, id)
                      IN  [base EXCEPT !.watched = w1,
                                       !.paired = pp.paired,
                                       !.exc = pp.exc,
                                       !.last.obs = "cancelled",
                                       !.last.steps = <<"unwatch", "unpair">>,
                                       !.last.completed = (pp.exc = "none")]
                 ELSE [base EXCEPT !.watched = w1,
                                   !.last.obs = "cancelled",
                                   !.last.steps = <<"unwatch">>,
                                   !.last.completed = TRUE]
        ELSE IF OrderWasExecuted(st)
        THEN IF fault = "total_ratelimit" \/ fault = "total_fatal"
             THEN [base EXCEPT !.exc = IF fault = "total_ratelimit"
                                       THEN "ratelimit" ELSE "fatal",
                               !.last.obs = "executed"]
             ELSE
             LET sink1 == executed_orders \cup {id}
                 w1 == Unwatch(watched, id)
                 another_id == paired[id]
                 isPaired == another_id # NoId
                 cfault == IF fault = "cancel_ratelimit" THEN "ratelimit"
                           ELSE IF fault = "cancel_fatal" THEN "fatal"
                           ELSE "none"
                 c == IF isPaired
                      THEN CancelOrder(b, another_id, x,
                                       cancelled_orders, cfault)
                      ELSE [exch |-> x, cdb |-> cancelled_orders,
                            res |-> "none"]
                 r1 == [base EXCEPT !.sink = sink1, !.watched = w1,
                                    !.exch = c.exch, !.cdb = c.cdb,
                                    !.creq = IF isPaired THEN {another_id}
                                             ELSE {},
                                    !.cok = IF c.res = "ok" THEN {another_id}
                                            ELSE {},
                                    !.cfail = IF c.res = "gave up"
                                              THEN {another_id} ELSE {},
                                    !.last.obs = "executed",
                                    !.last.cancel = c.res,
                                    !.last.steps =
                                        <<"record", "unwatch">>
                                        \o (IF isPaired THEN <<"cancel">>
                                            ELSE << >>)]
             IN  IF c.res \in Faults
                 THEN [r1 EXCEPT !.exc = c.res]
                 ELSE
                 LET pp == IF isPaired THEN PopPair(paired, id)
                           ELSE [paired |-> paired, exc |-> "none"]
                     r2 == [r1 EXCEPT !.paired = pp.paired,
                                      !.last.steps =
                                          IF isPaired
                                          THEN Append(@, "unpair") ELSE @]
                 IN  IF pp.exc # "none"
                     THEN [r2 EXCEPT !.exc = pp.exc]
                     ELSE IF b = "trade_jbot"
                             /\ IsShouldBeCancelledOrder(c.cdb, id)
                     THEN [r2 EXCEPT !.last.suppressed = TRUE,
                                     !.last.completed = TRUE]
                     ELSE
                     LET n == CreateTwoPairedOrders(r2.watched, pp.paired,
                                                    c.exch, nextId,
                                                    sellOut, buyOut)
                     IN  [r2 EXCEPT !.watched = n.watched,
                                    !.paired = n.paired,
                                    !.exch = n.exch,
                                    !.nextId = n.nextId,
                                    !.exc = n.exc,
                                    !.skips = n.skips,
                                    !.last.placed = n.placed,
                                    !.last.steps = Append(@, "place"),
                                    !.last.completed = (n.exc = "none")]
        ELSE [base EXCEPT !.last.obs = "live", !.last.completed = TRUE]

\* the inputs one turn of the loop reads: the status call can fail or find
\* nothing for any order; the calls after it are made for an executed order
\* only, the cancel call for a paired one only, a buy leg only after the
\* sell leg did not raise
ReactInputs(x, id, move, sibMove, found, fault, sellOut, buyOut) ==
    /\ move # "none" => (exch[id] = "live" /\ found)
    /\ fault \in {"status_ratelimit", "status_fatal"}
       => (found /\ move = "none")
    /\ (~found \/ x[id] # "executed")
       => fault \in {"none", "status_ratelimit", "status_fatal"}
    /\ fault \in {"cancel_ratelimit", "cancel_fatal"} => paired[id] # NoId
    /\ sibMove # "none"
       => /\ found /\ x[id] = "executed" /\ paired[id] # NoId
          /\ exch[paired[id]] = "live"
          /\ fault = "none"
    /\ (~found \/ x[id] # "executed" \/ fault # "none")
       => (sellOut = "placed" /\ buyOut = "placed")
    /\ LegRaised(sellOut) => buyOut = "placed"

\* an exception leaves run(): the process ends, and its ledgers with it
Dies ==
    /\ pc' = "dead"
    /\ watched' = {}
    /\ paired' = NoPairs
    /\ todo' = {}
    /\ polled' = {}
    /\ last' = LastNone
    /\ iter' = IterNone

\* where run() goes after an exception left _trade_strategy: on to the next
\* iteration after a rate-limit error, out of the process after any other
AfterException(exc) == IF exc = "ratelimit" THEN "discover" ELSE "dead"

\* the answer of orders(): the orders resting at the exchange, among them
\* one the user placed by hand since the last call when userNew
Orders(x, n, userNew) == IF userNew THEN [x EXCEPT ![n] = "live"] ELSE x

\* clean_up_orders, first half: _check_new_watched_orders
CleanUpDiscover(fault, userNew) ==
    /\ pc = "cleanup"
    /\ userNew => (fault = "none" /\ nUser < MaxUser /\ nextId <= MaxId)
    /\ IF fault # "none"
       THEN /\ Dies
            /\ UNCHANGED <<exch, nextId, nUser>>
       ELSE /\ exch' = Orders(exch, nextId, userNew)
            /\ nextId' = IF userNew THEN nextId + 1 ELSE nextId
            /\ nUser' = IF userNew THEN nUser + 1 ELSE nUser
            /\ watched' = watched \cup LiveOrders(exch')
            /\ todo' = watched'
            /\ pc' = IF watched' = {} THEN "discover" ELSE "cleanup_cancel"
            /\ UNCHANGED <<paired, polled, last, iter>>
    /\ UNCHANGED <<bot, cancelled_orders, executed_orders,
                   cancelReq, cancelOk, cancelFailed>>
    /\ UNCHANGED <<apiVars, pollVars, pairVars, ledgerVars, runVars, hbotVars, tickVars, walletVars, lendVars>>

\* clean_up_orders, second half: _cancel_order for one watched id
CleanUpCancel(id, move, fault) ==
    /\ pc = "cleanup_cancel"
    /\ id \in todo
    /\ move # "none" => (exch[id] = "live" /\ fault = "none")
    /\ LET c == CancelOrder(bot, id, Moved(exch, id, move),
                            cancelled_orders, fault)
       IN  /\ exch' = c.exch
           /\ cancelled_orders' = c.cdb
           /\ cancelReq' = cancelReq \cup {id}
           /\ cancelOk' = IF c.res = "ok" THEN cancelOk \cup {id}
                          ELSE cancelOk
           /\ cancelFailed' = IF c.res = "gave up"
                              THEN cancelFailed \cup {id} ELSE cancelFailed
           /\ IF c.res \in Faults
              THEN Dies
              ELSE /\ todo' = todo \ {id}
                   /\ pc' = IF todo' = {} THEN "discover"
                            ELSE "cleanup_cancel"
                   /\ UNCHANGED <<watched, paired, polled, last, iter>>
    /\ UNCHANGED <<bot, nextId, nUser, executed_orders>>
    /\ UNCHANGED <<apiVars, pollVars, pairVars, ledgerVars, runVars, hbotVars, tickVars, walletVars, lendVars>>

\* Discover: _check_new_watched_orders
CheckNewWatchedOrders(fault, userNew) ==
    /\ pc = "discover"
    /\ userNew => (fault = "none" /\ nUser < MaxUser /\ nextId <= MaxId)
    /\ IF fault = "fatal"
       THEN /\ Dies
            /\ UNCHANGED <<exch, nextId, nUser>>
       ELSE IF fault = "ratelimit"
       THEN /\ pc' = AfterException(fault)
            /\ iter' = IterNone
            /\ UNCHANGED <<watched, exch, nextId, nUser, paired, todo,
                           polled, last>>
       ELSE /\ exch' = Orders(exch, nextId, userNew)
            /\ nextId' = IF userNew THEN nextId + 1 ELSE nextId
            /\ nUser' = IF userNew THEN nUser + 1 ELSE nUser
            /\ watched' = watched \cup LiveOrders(exch')
            /\ pc' = "backfill"
            /\ iter' = IterNone
            /\ UNCHANGED <<paired, todo, polled, last>>
    /\ UNCHANGED <<bot, cancelled_orders, executed_orders, cancelReq,
                   cancelOk, cancelFailed>>
    /\ UNCHANGED <<apiVars, pollVars, pairVars, ledgerVars, runVars, hbotVars, tickVars, walletVars, lendVars>>

\* Backfill: _create_initial_orders for the target symbol
CreateInitialOrders(fault, sellOut, buyOut) ==
    /\ pc = "backfill"
    /\ (fault # "none" \/ watched # {})
       => (sellOut = "placed" /\ buyOut = "placed")
    /\ LegRaised(sellOut) => buyOut = "placed"
    /\ IF fault = "fatal"
       THEN /\ Dies
            /\ UNCHANGED <<exch, nextId>>
       ELSE IF fault = "ratelimit"
       THEN /\ pc' = AfterException(fault)
            /\ UNCHANGED <<watched, paired, exch, nextId, todo, polled,
                           last, iter>>
       ELSE IF watched # {}
       THEN /\ pc' = "check"
            /\ UNCHANGED <<watched, paired, exch, nextId, todo, polled,
                           last, iter>>
       ELSE LET n == CreateTwoPairedOrders(watched, paired, exch, nextId,
                                           sellOut, buyOut)
            IN  /\ n.nextId # nextId => nextId + 1 <= MaxId
                /\ exch' = n.exch
                /\ nextId' = n.nextId
                /\ IF n.exc = "fatal"
                   THEN Dies
                   ELSE /\ watched' = n.watched
                        /\ paired' = n.paired
                        /\ pc' = IF n.exc = "none" THEN "check"
                                 ELSE AfterException(n.exc)
                        /\ UNCHANGED <<todo, polled, last, iter>>
    /\ UNCHANGED <<bot, nUser, cancelled_orders, executed_orders,
                   cancelReq, cancelOk, cancelFailed>>
    /\ UNCHANGED <<apiVars, pollVars, pairVars, ledgerVars, runVars, hbotVars, tickVars, walletVars, lendVars>>

\* _check_watched_orders up to its loop: the balances and the list of ids
CheckWatchedOrdersBegin(fault) ==
    /\ pc = "check"
    /\ IF fault = "fatal"
       THEN Dies
       ELSE IF fault = "ratelimit"
       THEN /\ pc' = AfterException(fault)
            /\ UNCHANGED <<watched, paired, todo, polled, last, iter>>
       ELSE /\ todo' = watched
            /\ polled' = {}
            /\ iter' = [IterNone EXCEPT !.start = Cardinality(watched)]
            /\ pc' = IF watched = {} THEN "log" ELSE "react"
            /\ UNCHANGED <<watched, paired, last>>
    /\ UNCHANGED <<bot, exch, nextId, nUser, cancelled_orders,
                   executed_orders, cancelReq, cancelOk, cancelFailed>>
    /\ UNCHANGED <<apiVars, pollVars, pairVars, ledgerVars, runVars, hbotVars, tickVars, walletVars, lendVars>>

\* one turn of the loop of _check_watched_orders, for any id of the list
\* not yet polled (dict order); move and sibMove are what happened at the
\* exchange to the order and to its partner since the bot last read them
CheckWatchedOrdersStep(id, move, sibMove, found, fault, sellOut, buyOut) ==
    /\ pc = "react"
    /\ id \in todo
    /\ LET x0 == Moved(exch, id, move)
           x1 == IF paired[id] # NoId THEN Moved(x0, paired[id], sibMove)
                 ELSE x0
       IN
       /\ ReactInputs(x0, id, move, sibMove, found, fault, sellOut, buyOut)
       /\ LET r == React(bot, x1, id, found, fault, sellOut, buyOut)
              reacted == r.last.obs = "executed" /\ id \notin r.watched
          IN  /\ r.nextId # nextId => nextId + 1 <= MaxId
              /\ exch' = r.exch
              /\ nextId' = r.nextId
              /\ cancelled_orders' = r.cdb
              /\ executed_orders' = r.sink
              /\ cancelReq' = cancelReq \cup r.creq
              /\ cancelOk' = cancelOk \cup r.cok
              /\ cancelFailed' = cancelFailed \cup r.cfail
              /\ IF r.exc = "fatal"
                 THEN Dies
                 ELSE /\ watched' = r.watched
                      /\ paired' = r.paired
                      /\ IF r.exc = "ratelimit"
                         THEN /\ pc' = AfterException(r.exc)
                              /\ todo' = {}
                              /\ polled' = {}
                              /\ last' = LastNone
                              /\ iter' = [IterNone EXCEPT !.aborted = r.last]
                         ELSE /\ todo' = todo \ {id}
                              /\ polled' = polled \cup {id}
                              /\ pc' = IF todo' = {} THEN "log" ELSE "react"
                              /\ last' = r.last
                              /\ iter' = [iter EXCEPT
                                   !.execs = IF reacted THEN @ \cup {id}
                                             ELSE @,
                                   !.sibs = IF reacted /\ r.last.sib # NoId
                                            THEN @ \cup {r.last.sib} ELSE @,
                                   !.early = IF reacted
                                                /\ r.last.sib \in polled
                                             THEN @ \cup {r.last.sib}
                                             ELSE @,
                                   !.cancs = IF r.last.obs = "cancelled"
                                             THEN @ \cup {id} ELSE @,
                                   !.supp = IF r.last.suppressed
                                            THEN @ \cup {id} ELSE @,
                                   !.skips = @ + r.skips]
    /\ UNCHANGED <<bot, nUser>>
    /\ UNCHANGED <<apiVars, pollVars, pairVars, ledgerVars, runVars, hbotVars, tickVars, walletVars, lendVars>>

\* _log_watched_orders looks up the partner of every paired watched order
\* in the ledger: KeyError when the partner is not watched
LogWatchedOrders ==
    /\ pc = "log"
    /\ IF \E id \in watched : paired[id] # NoId /\ paired[id] \notin watched
       THEN Dies
       ELSE /\ pc' = "discover"
            /\ polled' = {}
            /\ last' = LastNone
            /\ iter' = IterNone
            /\ UNCHANGED <<watched, paired, todo>>
    /\ UNCHANGED <<bot, exch, nextId, nUser, cancelled_orders,
                   executed_orders, cancelReq, cancelOk, cancelFailed>>
    /\ UNCHANGED <<apiVars, pollVars, pairVars, ledgerVars, runVars, hbotVars, tickVars, walletVars, lendVars>>

\* the inputs of one turn of the loop that can matter in the state it
\* starts from
MovesOf(id) == IF exch[id] = "live" THEN Moves ELSE {"none"}

ReactFaultsOf(st, id) ==
    {"none", "status_ratelimit", "status_fatal"}
    \cup (IF st = "executed" THEN {"total_ratelimit", "total_fatal"} ELSE {})
    \cup (IF st = "executed" /\ paired[id] # NoId
          THEN {"cancel_ratelimit", "cancel_fatal"} ELSE {})

LegsOf(st, found, fault) ==
    IF st = "executed" /\ found /\ fault = "none"
    THEN {l \in LegOutcomes \X LegOutcomes :
            LegRaised(l[1]) => l[2] = "placed"}
    ELSE {<<"placed", "placed">>}

NextBot ==
    \/ \E f \in {"none", "fatal"}, u \in BOOLEAN : CleanUpDiscover(f, u)
    \/ \E id \in todo : \E m \in MovesOf(id), f \in {"none"} \cup Faults :
          CleanUpCancel(id, m, f)
    \/ \E f \in {"none"} \cup Faults, u \in BOOLEAN :
          CheckNewWatchedOrders(f, u)
    \/ \E f \in {"none"} \cup Faults :
          \E l \in LegsOf("executed", TRUE, f) :
             CreateInitialOrders(f, l[1], l[2])
    \/ \E f \in {"none"} \cup Faults : CheckWatchedOrdersBegin(f)
    \/ \E id \in todo : \E m \in MovesOf(id), found \in BOOLEAN :
          LET st == Moved(exch, id, m)[id]
          IN  \E f \in ReactFaultsOf(st, id) :
                \E sm \in (IF paired[id] # NoId THEN MovesOf(paired[id])
                           ELSE {"none"}) :
                  \E l \in LegsOf(st, found, f) :
                     CheckWatchedOrdersStep(id, m, sm, found, f, l[1], l[2])
    \/ LogWatchedOrders

(***************************************************************************)
(* _create_two_paired_orders with its prices, balances and replies         *)
(***************************************************************************)

\* decimal.Decimal values are kept in fixed point.  Ticker and execution
\* prices are in units of 1/CentScale, a step is in units of 1/CentScale,
\* and a product price * ratio (order price, fiat) is in units of
\* 1/PriceScale.  Field q is the value the decimal literal denotes; field e
\* counts, to first order, the representation error a binary float brought
\* in (in units of that error), so that a value is the exact decimal iff
\* e = 0.
CentScale == 100

PriceScale == CentScale * CentScale

Dec(q) == [q |-> q, e |-> 0]

DecGe(a, b) == a.q > b.q \/ (a.q = b.q /\ a.e >= b.e)

DecSub(a, b) == [q |-> a.q - b.q, e |-> a.e - b.e]

DecTimes(a, n) == [q |-> a.q * n, e |-> a.e * n]

\* TRADE_BOT_TARGETS as ast.literal_eval reads it: unit an int, step either
\* a float literal or a quoted decimal, here in hundredths
Configs ==
    { [unit |-> 1, step |-> [kind |-> "float", q |-> 1]],
      [unit |-> 1, step |-> [kind |-> "str", q |-> 1]],
      [unit |-> 2, step |-> [kind |-> "float", q |-> 50]] }

\* decimal.Decimal(v): exact for an int or a string; for a float it is the
\* exact value of the double, which equals q/100 only when q/100 is dyadic
DecimalOf(v) ==
    [q |-> v.q, e |-> IF v.kind = "float" /\ v.q % 25 # 0 THEN 1 ELSE 0]

NormalizeTarget(cfg) == [unit |-> cfg.unit, step |-> DecimalOf(cfg.step)]

\* mid_price * (Decimal(1.0) + step) and mid_price * (Decimal(1.0) - step)
SellPrice(mid, step) ==
    [q |-> mid * (CentScale + step.q), e |-> mid * step.e]

BuyPrice(mid, step) ==
    [q |-> mid * (CentScale - step.q), e |-> 0 - mid * step.e]

\* the cached exchange wallets of one balances() answer
NoWallet == [has |-> FALSE, available |-> 0]

CoinWallets == {NoWallet} \cup {[has |-> TRUE, available |-> c] : c \in {0, 1, 2, 4}}

NoFiatWallet == [has |-> FALSE, available |-> Dec(0)]

FiatWallets ==
    {NoFiatWallet} \cup
    {[has |-> TRUE, available |-> Dec(f)] : f \in {50000, 198000, 400000}}

\* last_price of the ticker / avg_execution_price of a filled order
Mids == {990, 1000}

\* answers of the exchange to new_limit_order
OrderReplies == {"ok", "not enough", "error"}

EnoughCoin_Any(available, amount) == TRUE

\* wallet['available'] >= amount * 2
EnoughCoin(available, amount) == available >= amount * 2

EnoughFiat_Any(available, buy_price, amount) == TRUE

\* wallet['available'] >= buy_price * amount * 2
EnoughFiat(available, buy_price, amount) ==
    DecGe(available, DecTimes(buy_price, amount * 2))

\* trade_bot's _create_new_order lets every BitfinexClientError through;
\* trade_jbot's _create_new_limit_order returns None for 'Invalid order:
\* not enough' and re-raises the rest
CreateNewOrder(b, reply) ==
    IF reply = "ok" THEN "placed"
    ELSE IF b = "trade_jbot" /\ reply = "not enough" THEN "rejected"
    ELSE "raised"

LegNone ==
    [out |-> "none", reply |-> "none", price |-> Dec(0), avail |-> Dec(0)]

ResNone ==
    [src |-> "none", last_price |-> 0, avg_execution_price |-> 0, mid |-> 0,
     amount |-> 0, sell |-> LegNone, buy |-> LegNone, notes |-> << >>,
     warns |-> 0, watchedNew |-> {}, paired |-> FALSE, exc |-> "none"]

\* one call of _create_two_paired_orders: the outcome of each leg, the
\* notifications, what was added to _watched_orders and _paired_orders, the
\* exception that ended the call, and the cached wallets afterwards
CreateTwoPairedOrdersCall(b, target, mid, amount, coin, fiat, sellReply, buyReply) ==
    LET tb == b = "trade_bot"
        sell_price == SellPrice(mid, target.step)
        buy_price == BuyPrice(mid, target.step)
        sellOut ==
            IF tb /\ ~coin.has THEN "none"
            ELSE IF tb /\ ~EnoughCoin(coin.available, amount) THEN "skipped"
            ELSE CreateNewOrder(b, sellReply)
        coin2 ==
            IF tb /\ sellOut = "placed"
            THEN [coin EXCEPT !.available = @ - amount] ELSE coin
        sellEnds == sellOut \in {"none", "raised"}
        buyOut ==
            IF sellEnds \/ (tb /\ ~fiat.has) THEN "none"
            ELSE IF tb /\ ~EnoughFiat(fiat.available, buy_price, amount)
                 THEN "skipped"
            ELSE CreateNewOrder(b, buyReply)
        fiat2 ==
            IF tb /\ buyOut = "placed"
            THEN [fiat EXCEPT !.available =
                      DecSub(@, DecTimes(buy_price, amount))]
            ELSE fiat
        exc ==
            IF sellOut = "none" THEN "TradeBotError"
            ELSE IF sellOut = "raised" THEN "BitfinexClientError"
            ELSE IF buyOut = "none" THEN "TradeBotError"
            ELSE IF buyOut = "raised" THEN "BitfinexClientError"
            ELSE "none"
        Handled(out) == out \in {"skipped", "rejected"}
        Asked(out) == out \in {"placed", "rejected", "raised"}
    IN  [sell |-> [out |-> sellOut,
                   reply |-> IF Asked(sellOut) THEN sellReply ELSE "none",
                   price |-> sell_price, avail |-> Dec(coin.available)],
         buy |-> [out |-> buyOut,
                  reply |-> IF Asked(buyOut) THEN buyReply ELSE "none",
                  price |-> buy_price, avail |-> fiat.available],
         notes |-> (IF Handled(sellOut) THEN <<"need_coin">> ELSE << >>)
                   \o (IF Handled(buyOut) THEN <<"need_fiat">> ELSE << >>),
         warns |-> (IF sellOut = "rejected" THEN 1 ELSE 0)
                   + (IF buyOut = "rejected" THEN 1 ELSE 0),
         watchedNew |-> (IF sellOut = "placed" THEN {"sell"} ELSE {})
                        \cup (IF buyOut = "placed" THEN {"buy"} ELSE {}),
         paired |-> (sellOut = "placed" /\ buyOut = "placed"),
         exc |-> exc, coin |-> coin2, fiat |-> fiat2]

\* fetched keeps the wallets as balances() answered them, spent sums what
\* the orders trade_bot placed since then committed: coin for the sells,
\* fiat for the buys
PairIdle ==
    [phase |-> "idle", bot |-> "trade_bot",
     cfg |-> [unit |-> 1, step |-> [kind |-> "str", q |-> 1]],
     target |-> [unit |-> 1, step |-> Dec(1)],
     coin |-> NoWallet, fiat |-> NoFiatWallet, res |-> ResNone,
     fetched |-> [coin |-> NoWallet, fiat |-> NoFiatWallet],
     spent |-> [coin |-> 0, fiat |-> Dec(0)]]

\* TradeBot(config.TRADE_BOT_TARGETS, db): __init__ normalises the targets
PairStart(b, cfg) ==
    /\ pair.phase = "idle"
    /\ pair' = [pair EXCEPT !.phase = "ready", !.bot = b, !.cfg = cfg,
                            !.target = NormalizeTarget(cfg)]
    /\ UNCHANGED <<apiVars, pollVars, botVars, ledgerVars, runVars, hbotVars, tickVars, walletVars, lendVars>>

\* balances = self._get_balances() at the top of _create_initial_orders and
\* of _check_watched_orders
PairGetBalances(coin, fiat) ==
    /\ pair.phase \in {"ready", "cached"}
    /\ pair' = [pair EXCEPT !.phase = "cached", !.coin = coin,
                            !.fiat = fiat, !.res = ResNone,
                            !.fetched = [coin |-> coin, fiat |-> fiat],
                            !.spent = [coin |-> 0, fiat |-> Dec(0)]]
    /\ UNCHANGED <<apiVars, pollVars, botVars, ledgerVars, runVars, hbotVars, tickVars, walletVars, lendVars>>

\* one call of _create_two_paired_orders, from _create_initial_orders
\* (mid_price = self._get_last_price(symbol), amount = config['unit']) or
\* from _action_to_executed_order (mid_price = avg_execution_price, amount =
\* original_amount of a watched order, which is the unit)
PairCreate(src, price, sellReply, buyReply) ==
    /\ pair.phase = "cached"
    /\ pair.res.exc = "none"
    /\ LET last_price == IF src = "backfill" THEN price ELSE 0
           avg_execution_price == IF src = "react" THEN price ELSE 0
           mid == IF src = "backfill" THEN last_price
                  ELSE avg_execution_price
           amount == pair.target.unit
           r == CreateTwoPairedOrdersCall(pair.bot, pair.target, mid, amount,
                                          pair.coin, pair.fiat,
                                          sellReply, buyReply)
       IN  pair' = [pair EXCEPT
                !.coin = r.coin, !.fiat = r.fiat,
                !.spent = IF pair.bot # "trade_bot" THEN @
                          ELSE [coin |-> IF "sell" \in r.watchedNew
                                         THEN @.coin + amount ELSE @.coin,
                                fiat |-> IF "buy" \in r.watchedNew
                                         THEN DecSub(@.fiat,
                                                  DecTimes(r.buy.price,
                                                           0 - amount))
                                         ELSE @.fiat],
                !.res = [src |-> src, last_price |-> last_price,
                         avg_execution_price |-> avg_execution_price,
                         mid |-> mid, amount |-> amount, sell |-> r.sell,
                         buy |-> r.buy, notes |-> r.notes,
                         warns |-> r.warns, watchedNew |-> r.watchedNew,
                         paired |-> r.paired, exc |-> r.exc]]
    /\ UNCHANGED <<apiVars, pollVars, botVars, ledgerVars, runVars, hbotVars, tickVars, walletVars, lendVars>>

NextPair ==
    \/ \E b \in Bots, cfg \in Configs: PairStart(b, cfg)
    \/ \E coin \in CoinWallets, fiat \in FiatWallets:
           PairGetBalances(coin, fiat)
    \/ \E src \in {"backfill", "react"}, price \in Mids,
          sellReply \in OrderReplies, buyReply \in OrderReplies:
           PairCreate(src, price, sellReply, buyReply)

(***************************************************************************)
(* _check_new_watched_orders and _create_initial_orders on order snapshots *)
(***************************************************************************)

MaxOrders == 2

\* ids of the orders that exist before the bot places any
OrderIds == 1..MaxOrders

\* self._targets: symbol -> unit
Targets == [s \in {"ETCUSD", "ETHUSD"} |-> IF s = "ETCUSD" THEN 1 ELSE 2]

TargetSymbols == DOMAIN Targets

\* an order as orders() and new_limit_order() return it
Order(symbol, original_amount, is_live, type, side, price) ==
    [symbol |-> symbol, original_amount |-> original_amount,
     is_live |-> is_live, type |-> type, side |-> side, price |-> price]

\* the orders the exchange may list: two that match a target (one of them
\* also with the price changed by hand), and one failing each test
OrderKinds ==
    { Order("ETCUSD", 1, TRUE, "exchange limit", "sell", 2),
      Order("ETCUSD", 1, TRUE, "exchange limit", "sell", 3),
      Order("ETHUSD", 2, TRUE, "exchange limit", "buy", 1),
      Order("BTCUSD", 1, TRUE, "exchange limit", "sell", 2),
      Order("ETCUSD", 2, TRUE, "exchange limit", "sell", 2),
      Order("ETCUSD", 1, FALSE, "exchange limit", "sell", 2),
      Order("ETHUSD", 2, TRUE, "limit", "buy", 1) }

ShouldWatchThisOrder_AnyType(order) ==
    /\ order.symbol \in TargetSymbols
    /\ order.original_amount = Targets[order.symbol]
    /\ order.is_live

ShouldWatchThisOrder(order) ==
    /\ order.symbol \in TargetSymbols
    /\ order.original_amount = Targets[order.symbol]
    /\ order.is_live
    /\ order.type = "exchange limit"

\* snapshots the ledger can hold for an order the bot did not place: the
\* order as it was listed when it passed the tests
Snapshots == {k \in OrderKinds : ShouldWatchThisOrder(k)}

MaxOf(S) == CHOOSE m \in S : \A x \in S : x <= m

CheckNewWatchedOrdersOf_FirstOnly(os, w) ==
    LET new == {i \in DOMAIN os : i \notin DOMAIN w /\ ShouldWatchThisOrder(os[i])}
        add == IF new = {} THEN {} ELSE {CHOOSE i \in new : \A j \in new : i <= j}
    IN  [id \in DOMAIN w \cup add |-> IF id \in DOMAIN os THEN os[id] ELSE w[id]]

\* the loop of _check_new_watched_orders over the list os, on the ledger w
CheckNewWatchedOrdersOf(os, w) ==
    [id \in DOMAIN w \cup {i \in DOMAIN os : ShouldWatchThisOrder(os[i])} |->
        IF id \in DOMAIN os THEN os[id] ELSE w[id]]

SymbolsWithOrders_None(w) == {}

\* symbols_with_orders of _create_initial_orders
SymbolsWithOrders(w) == {w[id].symbol : id \in DOMAIN w}

\* answers of _create_new_order / _create_new_limit_order for a leg
BackfillLegs == {"placed", "skipped", "raised"}

\* state after _create_two_paired_orders for one symbol: a placed leg gets
\* the next id, is listed by the exchange and is watched with the returned
\* status; both placed are paired; a raised leg ends the call
BackfillSymbol(st, symbol, sellOut, buyOut) ==
    IF st.exc THEN st
    ELSE
    LET n == 1 + MaxOf(OrderIds \cup DOMAIN st.orders \cup DOMAIN st.watched)
        sellId == n
        buyId == IF sellOut = "placed" THEN n + 1 ELSE n
        sell == Order(symbol, Targets[symbol], TRUE, "exchange limit", "sell", 3)
        buy == Order(symbol, Targets[symbol], TRUE, "exchange limit", "buy", 1)
        buyTried == sellOut # "raised"
        new == (IF sellOut = "placed" THEN {sellId} ELSE {})
               \cup (IF buyTried /\ buyOut = "placed" THEN {buyId} ELSE {})
        Status(id) == IF id = sellId /\ sellOut = "placed" THEN sell ELSE buy
        both == sellOut = "placed" /\ buyOut = "placed"
    IN  [orders |-> [id \in DOMAIN st.orders \cup new |->
                        IF id \in new THEN Status(id) ELSE st.orders[id]],
         watched |-> [id \in DOMAIN st.watched \cup new |->
                        IF id \in new THEN Status(id) ELSE st.watched[id]],
         paired |-> [id \in DOMAIN st.paired \cup (IF both THEN new ELSE {}) |->
                        IF both /\ id = sellId THEN buyId
                        ELSE IF both /\ id = buyId THEN sellId
                        ELSE st.paired[id]],
         exc |-> sellOut = "raised" \/ (buyTried /\ buyOut = "raised")]

RECURSIVE BackfillLoop(_, _, _, _, _)
\* the loop of _create_initial_orders over the targets in the order seq
BackfillLoop(st, seq, with, sellOut, buyOut) ==
    IF seq = << >> THEN st
    ELSE BackfillLoop(IF Head(seq) \in with THEN st
                      ELSE BackfillSymbol(st, Head(seq), sellOut, buyOut),
                      Tail(seq), with, sellOut, buyOut)

\* orders in which the dict of targets may be iterated
TargetOrders == {<<"ETCUSD", "ETHUSD">>, <<"ETHUSD", "ETCUSD">>}

CallNone == [op |-> "none", runs |-> 0, changed |-> FALSE, exc |-> FALSE]

\* the bot starts or resumes with some ledger against some exchange list;
\* an order keeps its symbol and side
LedgerSetup(os, w) ==
    /\ call.op = "none"
    /\ \A id \in DOMAIN os \cap DOMAIN w :
           os[id].symbol = w[id].symbol /\ os[id].side = w[id].side
    /\ orders' = os
    /\ watched_orders' = w
    /\ paired_orders' = << >>
    /\ call' = [CallNone EXCEPT !.op = "setup"]
    /\ UNCHANGED <<apiVars, pollVars, botVars, pairVars, runVars, hbotVars, tickVars, walletVars, lendVars>>

\* _check_new_watched_orders
CheckNewWatchedOrdersCall ==
    /\ call.op # "none"
    /\ ~call.exc
    /\ watched_orders' = CheckNewWatchedOrdersOf(orders, watched_orders)
    /\ call' = IF call.op = "discover"
               THEN [call EXCEPT !.runs = 2]
               ELSE [op |-> "discover", runs |-> 1,
                     changed |-> watched_orders' # watched_orders,
                     exc |-> FALSE]
    /\ UNCHANGED <<orders, paired_orders>>
    /\ UNCHANGED <<apiVars, pollVars, botVars, pairVars, runVars, hbotVars, tickVars, walletVars, lendVars>>

\* _create_initial_orders
CreateInitialOrdersCall(seq, sellOut, buyOut) ==
    /\ call.op # "none"
    /\ ~call.exc
    /\ LET st == BackfillLoop([orders |-> orders, watched |-> watched_orders,
                               paired |-> paired_orders, exc |-> FALSE],
                              seq, SymbolsWithOrders(watched_orders),
                              sellOut, buyOut)
       IN  /\ orders' = st.orders
           /\ watched_orders' = st.watched
           /\ paired_orders' = st.paired
           /\ call' = [op |-> "backfill", runs |-> 1,
                       changed |-> st.watched # watched_orders,
                       exc |-> st.exc]
    /\ UNCHANGED <<apiVars, pollVars, botVars, pairVars, runVars, hbotVars, tickVars, walletVars, lendVars>>

NextLedger ==
    \/ \E S \in SUBSET OrderIds, T \in SUBSET OrderIds:
           \E os \in [S -> OrderKinds], w \in [T -> Snapshots]:
               LedgerSetup(os, w)
    \/ CheckNewWatchedOrdersCall
    \/ \E seq \in TargetOrders, sellOut \in BackfillLegs,
          buyOut \in BackfillLegs:
           CreateInitialOrdersCall(seq, sellOut, buyOut)

(***************************************************************************)
(* run(): one iteration, the notifier, the except clauses                  *)
(***************************************************************************)

RATE_LIMIT_TIME == 120

MaxIter == 3

AllBots == Bots \cup {"trade_hbot"}

\* what slack.chat.post_message can do: return, or raise one of these
SlackReplies == {"ok", "slacker.Error", "HTTPError", "ConnectionError"}

\* log(): print, then post to Slack when it is enabled.  trade_bot and
\* trade_jbot have no try around the post; trade_hbot catches slacker.Error
\* and requests.exceptions.HTTPError only
Log(b, slack, reply) ==
    IF ~slack \/ reply = "ok" THEN "ok"
    ELSE IF b = "trade_hbot" /\ reply \in {"slacker.Error", "HTTPError"}
    THEN "ok"
    ELSE "raise"

Exc(kind, text, at) == [kind |-> kind, text |-> text, at |-> at]

NoExc == Exc("none", "none", "none")

\* what one iteration does, in order, when it finds an executed paired
\* order (trade_bot, trade_jbot), or a timed-out unconfirmed order
\* (trade_hbot: check_order_timeout)
IterationSteps(b, executed) ==
    IF b = "trade_hbot"
    THEN IF executed
         THEN <<"log_timeout", "remove_unconfirm", "new_order">>
         ELSE << >>
    ELSE <<"log_banner">> \o
         (IF executed
          THEN <<"log_total", "log_executed", "record", "unwatch",
                 "log_cancel", "cancel", "unpair", "place_sell",
                 "log_create_sell", "watch_sell", "place_buy",
                 "log_create_buy", "watch_buy", "pair">>
          ELSE << >>)

LogSteps ==
    {"log_banner", "log_total", "log_executed", "log_cancel",
     "log_create_sell", "log_create_buy", "log_timeout"}

\* the steps that call the exchange
ExchangeSteps == {"cancel", "place_sell", "place_buy"}

\* exceptions the exchange calls of the steps can raise
StrategyFaults ==
    {NoExc} \cup
    {Exc(k[1], k[2], at) :
        k \in {<<"BitfinexClientError", "ERR_RATE_LIMIT">>,
               <<"BitfinexClientError", "other">>,
               <<"Exception", "other">>},
        at \in ExchangeSteps}

PosIn(seq, s) ==
    IF \E i \in 1..Len(seq) : seq[i] = s
    THEN CHOOSE i \in 1..Len(seq) : seq[i] = s
    ELSE Len(seq) + 1

\* the steps until the first one that raises: a log call whose post fails,
\* or an exchange call that fails.  _cancel_order notifies an exception
\* that is no BitfinexClientError itself before re-raising it
RunSteps(b, slack, executed, failLog, reply, fault) ==
    LET steps == IterationSteps(b, executed)
        logStop == IF Log(b, slack, reply) = "raise"
                   THEN PosIn(steps, failLog) ELSE Len(steps) + 1
        faultStop == IF fault.kind # "none"
                     THEN PosIn(steps, fault.at) ELSE Len(steps) + 1
        stop == IF logStop < faultStop THEN logStop ELSE faultStop
        inner == stop = faultStop /\ stop <= Len(steps)
                 /\ fault.at = "cancel" /\ fault.kind = "Exception"
    IN  [done |-> SubSeq(steps, 1, stop - 1),
         all |-> steps,
         exc |-> IF stop > Len(steps) THEN NoExc
                 ELSE IF logStop < faultStop THEN Exc(reply, "slack", failLog)
                 ELSE fault,
         calls |-> IF inner THEN 1 ELSE 0]

\* the except clauses of run(); trade_hbot's run() has none
RunHandler(b, slack, exc, h1, h2) ==
    IF exc.kind = "none"
    THEN [calls |-> 0, posted |-> 0, slept |-> 0, raised |-> NoExc]
    ELSE IF b = "trade_hbot"
    THEN [calls |-> 0, posted |-> 0, slept |-> 0, raised |-> exc]
    ELSE IF Log(b, slack, h1) = "raise"
    THEN [calls |-> 1, posted |-> 0, slept |-> 0,
          raised |-> Exc(h1, "slack", "run")]
    ELSE IF exc.kind = "BitfinexClientError" /\ exc.text = "ERR_RATE_LIMIT"
    THEN IF Log(b, slack, h2) = "raise"
         THEN [calls |-> 1, posted |-> 1, slept |-> 0,
               raised |-> Exc(h2, "slack", "run")]
         ELSE [calls |-> 1, posted |-> 1, slept |-> RATE_LIMIT_TIME,
               raised |-> NoExc]
    ELSE [calls |-> 1, posted |-> 1, slept |-> 0, raised |-> exc]

RunIdle ==
    [phase |-> "idle", bot |-> "trade_bot", slack |-> FALSE, iters |-> 0,
     slept |-> 0, sleptNow |-> 0, done |-> << >>, all |-> << >>,
     exc |-> NoExc, calls |-> 0, posted |-> 0, raised |-> NoExc]

\* the inputs of one iteration that make a difference: an exchange call
\* can fail only if the iteration makes it; a post can fail only with Slack
\* enabled and only at a log call the iteration makes; a handler's post is
\* made only when an exception reached the handler
FaultsOf(b, executed) ==
    LET steps == IterationSteps(b, executed)
    IN  {f \in StrategyFaults :
            f.kind # "none" => \E i \in 1..Len(steps) : steps[i] = f.at}

LogFailuresOf(b, slack, executed, fault) ==
    LET steps == IterationSteps(b, executed)
    IN  {<<"log_banner", "ok">>} \cup
        (IF slack /\ fault.kind = "none"
         THEN {<<steps[i], r>> :
                  i \in {k \in 1..Len(steps) : steps[k] \in LogSteps},
                  r \in SlackReplies \ {"ok"}}
         ELSE {})

HandlerRepliesOf(b, slack, exc) ==
    {<<"ok", "ok">>} \cup
    (IF slack /\ b \in Bots /\ exc.kind # "none"
     THEN {<<r, "ok">> : r \in SlackReplies \ {"ok"}}
          \cup (IF exc.text = "ERR_RATE_LIMIT"
                THEN {<<"ok", r>> : r \in SlackReplies \ {"ok"}} ELSE {})
     ELSE {})

\* main(): the bot is constructed, with or without Slack, and run() entered
RunStart(b, slack) ==
    /\ run.phase = "idle"
    /\ run' = [run EXCEPT !.phase = "loop", !.bot = b, !.slack = slack]
    /\ UNCHANGED <<apiVars, pollVars, botVars, pairVars, ledgerVars, hbotVars, tickVars, walletVars, lendVars>>

\* one turn of the while loop of run(), its except clauses included
RunIteration(executed, failLog, reply, fault, h1, h2) ==
    /\ run.phase = "loop"
    /\ run.iters < MaxIter
    /\ LET s == RunSteps(run.bot, run.slack, executed, failLog, reply, fault)
           h == RunHandler(run.bot, run.slack, s.exc, h1, h2)
       IN  run' = [run EXCEPT
                !.phase = IF h.raised.kind = "none" THEN "loop" ELSE "ended",
                !.iters = @ + 1,
                !.slept = @ + h.slept,
                !.sleptNow = h.slept,
                !.done = s.done,
                !.all = s.all,
                !.exc = s.exc,
                !.calls = s.calls + h.calls,
                !.posted = s.calls + h.posted,
                !.raised = h.raised]
    /\ UNCHANGED <<apiVars, pollVars, botVars, pairVars, ledgerVars, hbotVars, tickVars, walletVars, lendVars>>

NextRun ==
    \/ \E b \in AllBots, slack \in BOOLEAN : RunStart(b, slack)
    \/ \E executed \in BOOLEAN :
         \E fault \in FaultsOf(run.bot, executed) :
           \E l \in LogFailuresOf(run.bot, run.slack, executed, fault) :
             \E h \in HandlerRepliesOf(run.bot, run.slack,
                     RunSteps(run.bot, run.slack, executed,
                              l[1], l[2], fault).exc) :
                RunIteration(executed, l[1], l[2], fault, h[1], h[2])

(***************************************************************************)
(* trade_hbot: the local order table, the unconfirmed list and the         *)
(* websocket events of one pair                                            *)
(***************************************************************************)

\* bot_config['symbols']: the pairs the bot trades
HbSymbols == {"BTCUSD"}

\* the configuration of the pair: type CRYPTO, so every bot order has the
\* same amount; each grid step doubles the price, which keeps the prices of
\* get_lower_price exact
CfgPercent == 2

CfgProfit == 1

CfgAmount == 3

\* the amount of an order the user placed by hand
UserAmount == 5

NO_BALANCE_RETRY_TIMES == 3

\* the prices of the grid the exchange quotes; an execution at the lowest or
\* the highest one would leave the grid
MaxPrice == 16

GridPrices == {1, 2, 4, 8, 16}

\* the logical orders the bot submits in one behaviour, and the ids the
\* exchange issues
MaxRoots == 2

MaxHbId == 3

\* the times the server opens the connection
MaxOpened == 2

HbIds == 1..MaxHbId

Abs(x) == IF x < 0 THEN -x ELSE x

Larger(a, b) == IF a >= b THEN a ELSE b

\* math.isclose(a, b, rel_tol=pct/100)
IsClose(a, b, pct) == 100 * Abs(a - b) <= pct * Larger(Abs(a), Abs(b))

RECURSIVE Pow(_, _)
Pow(b, e) == IF e <= 0 THEN 1 ELSE b * Pow(b, e - 1)

\* TradeHelper.get_higher_price / get_lower_price
GetHigherPrice(price, profit) ==
    IF profit <= 0 THEN 0 ELSE price * Pow(CfgPercent, profit)

GetLowerPrice(price, profit) ==
    IF profit <= 0 THEN 0 ELSE price \div Pow(CfgPercent, profit)

\* TradeHelper.get_buy_amount_at_price / get_sell_amount_at_price, CRYPTO
GetBuyAmountAtPrice(price) == CfgAmount

GetSellAmountAtPrice(price) ==
    GetBuyAmountAtPrice(GetLowerPrice(price, CfgProfit))

\* TradeHelper.is_bot_order, CRYPTO: math.isclose with the default tolerance
\* of 1e-09 is equality on these amounts
IsBotOrder(order) == Abs(order.amount_orig) = CfgAmount

\* an order as the exchange reports it: amount is what remains to be filled
HbOrder(id, price, amount_orig, amount, status) ==
    [id |-> id, price |-> price, amount_orig |-> amount_orig,
     amount |-> amount, status |-> status]

\* an entry of _unconfirm_orders: [pair, price, amount, time, retry_times];
\* the entries are in the order of their times; nth counts the submissions
\* of the logical order so far, this one included; sent tells that the
\* order reached the exchange and is not answered yet
Unconfirmed(price, amount, retry, nth, sent) ==
    [price |-> price, amount |-> amount, retry |-> retry, nth |-> nth,
     sent |-> sent]

NoOrder == HbOrder(0, 0, 0, 0, "none")

\* held is the order table as the last reset found it, less the orders the
\* snapshot of the new connection reported.
\* the handler that ran last: the update it was given, the entries it
\* appended to the unconfirmed list with new_order, the number of
\* entries check_order_timeout found too old, the orders a snapshot
\* reported as filled in part, the orders check_orders_during_disconnect
\* handled, the exception raised
HbLastNone ==
    [op |-> "none", order |-> NoOrder, k |-> 0, partial |-> {},
     out |-> << >>, fixed |-> {}, exc |-> "none"]

HbIdle ==
    [phase |-> "idle",
     retry_order_in_error |-> FALSE, retry_order_in_timeout |-> FALSE,
     conn |-> "down", opened |-> 0, wsSnapshot |-> FALSE,
     received_order_snapshot |-> FALSE,
     orders |-> {}, unconfirm_orders |-> << >>,
     orders_before_disconnect |-> {},
     book |-> {}, nid |-> 1, nroots |-> 0,
     held |-> {}, last |-> HbLastNone]

TableIds(s) == {o.id : o \in s.orders}

RemoveAt(seq, i) == SubSeq(seq, 1, i - 1) \o SubSeq(seq, i + 1, Len(seq))

\* a bot that re-submits under the retry count it was given, one higher
\* than the code's
NewOrder_SameRetry(s, price, amount, retry_times, nth) ==
    LET rt == IF retry_times < 0 THEN NO_BALANCE_RETRY_TIMES
              ELSE retry_times + 1
        order == Unconfirmed(price, amount, rt, nth + 1, s.conn = "up")
    IN  [s EXCEPT !.unconfirm_orders = Append(@, order),
                  !.nroots = IF nth = 0 THEN @ + 1 ELSE @,
                  !.last.out = Append(@, order)]

\* new_order(pair, price, amount, retry_times): retry_times -1 stands for
\* None; the entry is appended and the order sent over the websocket, where
\* it is lost when the connection is down; nth is the count of the entry
\* this submission replaces, 0 for a new logical order
NewOrder(s, price, amount, retry_times, nth) ==
    LET rt == IF retry_times < 0 THEN NO_BALANCE_RETRY_TIMES
              ELSE retry_times
        order == Unconfirmed(price, amount, rt, nth + 1, s.conn = "up")
    IN  [s EXCEPT !.unconfirm_orders = Append(@, order),
                  !.nroots = IF nth = 0 THEN @ + 1 ELSE @,
                  !.last.out = Append(@, order)]

\* the loop of remove_unconfirm_order: temp_orders is the list itself, so a
\* removal shifts the entries under the running index and the entry after a
\* removed one is not looked at
RECURSIVE RemoveScan(_, _, _, _, _, _, _)
RemoveScan(list, i, price, amount, retry_times, real_price, nth) ==
    IF i > Len(list)
    THEN [list |-> list, retry |-> retry_times, price |-> real_price,
          nth |-> nth]
    ELSE LET order == list[i]
         IN  IF /\ IsClose(order.amount, amount, 1)
                /\ (IsClose(order.price, price, 1) \/ order.price = 0)
             THEN RemoveScan(RemoveAt(list, i), i + 1, price, amount,
                             order.retry, order.price, order.nth)
             ELSE RemoveScan(list, i + 1, price, amount, retry_times,
                             real_price, nth)

\* remove_unconfirm_order(pair, price, amount): (retry_times, real_price)
RemoveUnconfirmOrder(s, price, amount) ==
    LET r == RemoveScan(s.unconfirm_orders, 1, price, amount, 0, price, 0)
    IN  [s |-> [s EXCEPT !.unconfirm_orders = r.list],
         retry |-> r.retry, price |-> r.price, nth |-> r.nth]

\* a check that never finds the order
CheckOrder_Never(s, price, amount, reach) == FALSE

\* check_order(pair, price, amount): reach is what is_reach_limit answers
\* from the wallet and the last price
CheckOrder(s, price, amount, reach) ==
    \/ \E order \in s.orders :
          /\ IsClose(order.amount_orig, amount, 1)
          /\ IsClose(order.price, price, 1)
    \/ \E i \in DOMAIN s.unconfirm_orders :
          /\ IsClose(s.unconfirm_orders[i].price, price, 1)
          /\ IsClose(s.unconfirm_orders[i].amount, amount, 1)
    \/ (amount > 0 /\ reach)

\* set_orders_by_price(pair, cfg, base_price, side)
SetOrdersByPrice(s, base_price, side, reach) ==
    LET buyPrice == IF side = "BUY" THEN GetLowerPrice(base_price, 1)
                    ELSE GetLowerPrice(base_price, CfgProfit)
        buyAmount == GetBuyAmountAtPrice(buyPrice)
        s1 == IF ~CheckOrder(s, buyPrice, buyAmount, reach)
              THEN NewOrder(s, buyPrice, buyAmount, -1, 0)
              ELSE s
        sellPrice == IF side = "BUY"
                     THEN GetHigherPrice(base_price, CfgProfit)
                     ELSE GetHigherPrice(base_price, 1)
        sellAmount == GetSellAmountAtPrice(sellPrice)
    IN  IF ~CheckOrder(s1, sellPrice, -sellAmount, reach)
        THEN NewOrder(s1, sellPrice, -sellAmount, -1, 0)
        ELSE s1

\* handle_executed_order without the test of the remaining amount
HandleExecutedOrder_AnyFill(s, order, normal, reach) ==
    LET s1 == [s EXCEPT !.orders = {o \in @ : o.id # order.id}]
    IN  IF ~IsBotOrder(order)
        THEN s1
        ELSE SetOrdersByPrice(s1, order.price,
                              IF order.amount_orig > 0 THEN "BUY"
                              ELSE "SELL", reach)

\* handle_executed_order(order, cfg, normal)
HandleExecutedOrder(s, order, normal, reach) ==
    IF order.amount # 0 /\ normal
    THEN s
    ELSE LET s1 == [s EXCEPT !.orders = {o \in @ : o.id # order.id}]
         IN  IF ~IsBotOrder(order)
             THEN s1
             ELSE SetOrdersByPrice(s1, order.price,
                                   IF order.amount_orig > 0 THEN "BUY"
                                   ELSE "SELL", reach)

AddOrder(s, order) ==
    IF order.id \notin TableIds(s)
    THEN [s EXCEPT !.orders = @ \cup {order}]
    ELSE s

\* the statuses that contain 'PARTIALLY': a partial fill, and the final
\* update of an order that was filled in several trades
PartiallyStatuses == {"PARTIALLY FILLED", "EXECUTED was PARTIALLY FILLED"}

\* process_order(order); del self._orders[pair][order.id] raises KeyError
\* for an id that is not in the table
ProcessOrder(s, order, reach) ==
    IF order.status = "ACTIVE"
    THEN RemoveUnconfirmOrder(AddOrder(s, order), order.price,
                              order.amount_orig).s
    ELSE IF order.status \in PartiallyStatuses
    THEN HandleExecutedOrder(
             RemoveUnconfirmOrder(AddOrder(s, order), order.price,
                                  order.amount_orig).s,
             order, TRUE, reach)
    ELSE IF order.status = "CANCELED"
    THEN IF order.id \in TableIds(s)
         THEN [s EXCEPT !.orders = {o \in @ : o.id # order.id}]
         ELSE [s EXCEPT !.last.exc = "KeyError"]
    ELSE IF order.status = "EXECUTED"
    THEN HandleExecutedOrder(s, order, TRUE, reach)
    ELSE s

ErrorTexts == {"not enough exchange balance", "minimum size", "other"}

\* process_notification(note) for an on-req note on a new order
ProcessNotification(s, status, text, price, amount_orig, amount) ==
    IF status = "ERROR"
    THEN LET r == RemoveUnconfirmOrder(s, price, amount_orig)
         IN  IF ~s.retry_order_in_error THEN r.s
             ELSE IF text = "not enough exchange balance" /\ r.retry <= 0
             THEN r.s
             ELSE IF text = "minimum size" THEN r.s
             ELSE IF r.retry > 0
             THEN NewOrder(r.s, r.price, amount_orig, r.retry - 1, r.nth)
             ELSE r.s
    ELSE IF status = "SUCCESS"
    THEN RemoveUnconfirmOrder(s, price, amount).s
    ELSE s

\* the new_order calls of check_order_timeout, one per timed-out entry
RECURSIVE RetryOrders(_, _)
RetryOrders(s, retry_orders) ==
    IF retry_orders = << >> THEN s
    ELSE LET order == Head(retry_orders)
             s1 == IF order.retry > 0
                   THEN NewOrder(s, order.amount, order.price,
                                 order.retry - 1, order.nth)
                   ELSE s
         IN  RetryOrders(s1, Tail(retry_orders))

\* check_order_timeout: the first k entries are older than
\* ORDER_TIMEOUT_SEC
CheckOrderTimeout(s, k) ==
    IF ~s.received_order_snapshot THEN s
    ELSE LET retry_orders == SubSeq(s.unconfirm_orders, 1, k)
             s1 == [s EXCEPT
                      !.unconfirm_orders = SubSeq(@, k + 1, Len(@)),
                      !.last.k = k]
         IN  IF s.retry_order_in_timeout
             THEN RetryOrders(s1, retry_orders)
             ELSE s1

\* reset(): not self._orders is true of a dict without keys only, and
\* _orders has one key per symbol since __init__
Reset(s) ==
    [s EXCEPT
       !.orders_before_disconnect = IF HbSymbols = {} THEN s.orders ELSE @,
       !.orders = {},
       !.received_order_snapshot = FALSE]

MinId(S) == CHOOSE i \in S : \A j \in S : i <= j

\* check_orders_during_disconnect: the orders of the saved table that the
\* new table lacks, in the order of the dict
RECURSIVE CheckOrdersDuringDisconnect(_, _, _)
CheckOrdersDuringDisconnect(s, rest, reach) ==
    IF rest = {} THEN s
    ELSE LET id == MinId({o.id : o \in rest})
             order == CHOOSE o \in rest : o.id = id
             s1 == IF order.id \notin TableIds(s)
                   THEN [HandleExecutedOrder(s, order, FALSE, reach)
                           EXCEPT !.last.fixed = @ \cup {order.id}]
                   ELSE s
         IN  CheckOrdersDuringDisconnect(s1, rest \ {order}, reach)

\* check_order_snapshot
CheckOrderSnapshot(s, reach) ==
    IF s.received_order_snapshot THEN s
    ELSE IF ~s.wsSnapshot THEN s
    ELSE CheckOrdersDuringDisconnect(
             [s EXCEPT !.received_order_snapshot = TRUE],
             s.orders_before_disconnect, reach)

\* __received_orders: process_order for every order of the snapshot
RECURSIVE ReceivedOrders(_, _, _)
ReceivedOrders(s, rest, reach) ==
    IF rest = {} \/ s.last.exc # "none"
    THEN s
    ELSE LET id == MinId({o.id : o \in rest})
             order == CHOOSE o \in rest : o.id = id
         IN  ReceivedOrders(ProcessOrder(s, order, reach), rest \ {order},
                            reach)

\* the orders the account holds when the bot starts: placed by an earlier
\* run of the bot, or by the user
InitialBooks ==
    {{HbOrder(1, 4, CfgAmount, CfgAmount, "ACTIVE"),
      HbOrder(2, 8, -CfgAmount, -CfgAmount, "ACTIVE")},
     {HbOrder(1, 4, -CfgAmount, -CfgAmount, "ACTIVE"),
      HbOrder(2, 4, UserAmount, UserAmount, "ACTIVE")}}

HbStep(op, order) ==
    [hb EXCEPT !.last = [HbLastNone EXCEPT !.op = op, !.order = order]]

\* TradeBot.__init__ with the two retry switches of the configuration
HbConstruct(inError, inTimeout, book) ==
    /\ hb.phase = "idle"
    /\ hb' = [hb EXCEPT !.phase = "events",
                        !.retry_order_in_error = inError,
                        !.retry_order_in_timeout = inTimeout,
                        !.book = book,
                        !.nid = Cardinality(book) + 1]
    /\ UNCHANGED <<apiVars, pollVars, botVars, pairVars, ledgerVars, runVars, tickVars, walletVars, lendVars>>

\* __check_system: the server opened the connection; reset() and __connect
HbConnect ==
    /\ hb.phase = "events"
    /\ hb.conn = "down"
    /\ hb.opened < MaxOpened
    /\ hb' = [Reset(HbStep("reset", NoOrder)) EXCEPT
                !.conn = "up", !.opened = @ + 1, !.wsSnapshot = FALSE,
                !.held = hb.orders]
    /\ UNCHANGED <<apiVars, pollVars, botVars, pairVars, ledgerVars, runVars, tickVars, walletVars, lendVars>>

\* the connection drops while no order waits for its confirmation; nothing
\* is called until the server opens it again
HbDisconnect ==
    /\ hb.phase = "events"
    /\ hb.conn = "up"
    /\ hb.unconfirm_orders = << >>
    /\ hb' = [hb EXCEPT !.conn = "down"]
    /\ UNCHANGED <<apiVars, pollVars, botVars, pairVars, ledgerVars, runVars, tickVars, walletVars, lendVars>>

\* a resting order as a snapshot reports it after a trade filled a part
\* of it; the updates of resting orders are dropped by __check_unused_info,
\* so the bot learns of a partial fill from a snapshot only
PartlyFilled(o) ==
    [o EXCEPT !.amount = IF o.amount > 0 THEN o.amount - 1 ELSE o.amount + 1,
              !.status = "PARTIALLY FILLED"]

\* __received_orders: the snapshot of the resting orders, of which those
\* with an id in partial are filled in part
HbReceivedOrders(partial, reach) ==
    /\ hb.phase = "events"
    /\ hb.conn = "up"
    /\ ~hb.wsSnapshot
    /\ partial \subseteq {o.id : o \in hb.book}
    /\ LET snapshot == {IF o.id \in partial THEN PartlyFilled(o) ELSE o :
                           o \in hb.book}
           s == ReceivedOrders(HbStep("snapshot", NoOrder), snapshot, reach)
       IN  /\ s.nroots <= MaxRoots
           /\ hb' = [s EXCEPT !.wsSnapshot = (s.last.exc = "none"),
                              !.last.partial = partial,
                              !.held = {o \in @ : o.id \notin
                                                    {b.id : b \in hb.book}}]
    /\ UNCHANGED <<apiVars, pollVars, botVars, pairVars, ledgerVars, runVars, tickVars, walletVars, lendVars>>

\* the unconfirmed list once the exchange has answered its i-th entry
Answered(s, i) == [s EXCEPT !.unconfirm_orders[i].sent = FALSE]

\* the exchange accepts the limit order of the i-th unconfirmed entry: the
\* note and the new order reach the bot when the connection is up
HbOrderNew(i, reach) ==
    /\ hb.phase = "events"
    /\ i \in DOMAIN hb.unconfirm_orders
    /\ hb.unconfirm_orders[i].sent
    /\ hb.unconfirm_orders[i].price \in GridPrices
    /\ hb.nid <= MaxHbId
    /\ LET p == hb.unconfirm_orders[i]
           order == HbOrder(hb.nid, p.price, p.amount, p.amount, "ACTIVE")
           s0 == [Answered(hb, i) EXCEPT !.book = @ \cup {order},
                                         !.nid = @ + 1]
           s1 == [s0 EXCEPT !.last = [HbLastNone EXCEPT !.op = "order_new",
                                                       !.order = order]]
           s == IF hb.conn = "up"
                THEN ProcessOrder(
                         ProcessNotification(s1, "SUCCESS", "none",
                                             order.price, order.amount_orig,
                                             order.amount),
                         order, reach)
                ELSE s0
       IN  /\ s.nroots <= MaxRoots
           /\ hb' = s
    /\ UNCHANGED <<apiVars, pollVars, botVars, pairVars, ledgerVars, runVars, tickVars, walletVars, lendVars>>

\* the exchange refuses the order of the i-th unconfirmed entry
HbOrderError(i, text) ==
    /\ hb.phase = "events"
    /\ i \in DOMAIN hb.unconfirm_orders
    /\ hb.unconfirm_orders[i].sent
    /\ LET p == hb.unconfirm_orders[i]
           order == HbOrder(0, p.price, p.amount, p.amount, text)
           s0 == Answered(hb, i)
           s1 == [s0 EXCEPT !.last = [HbLastNone EXCEPT
                                        !.op = "order_error",
                                        !.order = order]]
           s == IF hb.conn = "up"
                THEN ProcessNotification(s1, "ERROR", text, order.price,
                                         order.amount_orig, order.amount)
                ELSE s0
       IN  /\ s.nroots <= MaxRoots
           /\ hb' = s
    /\ UNCHANGED <<apiVars, pollVars, botVars, pairVars, ledgerVars, runVars, tickVars, walletVars, lendVars>>

\* a resting order is filled completely
HbOrderExecuted(o, status, reach) ==
    /\ hb.phase = "events"
    /\ o \in hb.book
    /\ 2 * o.price <= MaxPrice /\ o.price >= 2
    /\ status \in {"EXECUTED", "EXECUTED was PARTIALLY FILLED"}
    /\ LET order == [o EXCEPT !.amount = 0, !.status = status]
           s0 == [hb EXCEPT !.book = @ \ {o}]
           s1 == [s0 EXCEPT !.last = [HbLastNone EXCEPT
                                        !.op = "order_executed",
                                        !.order = order]]
           s == IF hb.conn = "up" THEN ProcessOrder(s1, order, reach) ELSE s0
       IN  /\ s.nroots <= MaxRoots
           /\ hb' = s
    /\ UNCHANGED <<apiVars, pollVars, botVars, pairVars, ledgerVars, runVars, tickVars, walletVars, lendVars>>

\* the final update of the order that was just filled arrives a second
\* time, as EXECUTED
HbOrderRepeated(reach) ==
    /\ hb.phase = "events"
    /\ hb.conn = "up"
    /\ hb.last.op = "order_executed"
    /\ LET order == [hb.last.order EXCEPT !.status = "EXECUTED"]
           s == ProcessOrder(HbStep("order_repeated", order), order, reach)
       IN  /\ s.nroots <= MaxRoots
           /\ hb' = s
    /\ UNCHANGED <<apiVars, pollVars, botVars, pairVars, ledgerVars, runVars, tickVars, walletVars, lendVars>>

\* the user cancels a resting order
HbOrderCanceled(o) ==
    /\ hb.phase = "events"
    /\ o \in hb.book
    /\ LET order == [o EXCEPT !.status = "CANCELED"]
           s0 == [hb EXCEPT !.book = @ \ {o}]
           s1 == [s0 EXCEPT !.last = [HbLastNone EXCEPT
                                        !.op = "order_canceled",
                                        !.order = order]]
       IN  hb' = IF hb.conn = "up" THEN ProcessOrder(s1, order, FALSE)
                 ELSE s0
    /\ UNCHANGED <<apiVars, pollVars, botVars, pairVars, ledgerVars, runVars, tickVars, walletVars, lendVars>>

\* run() after check_events: check_order_snapshot, check_order_timeout and
\* the sleep; the first k unconfirmed entries are older than
\* ORDER_TIMEOUT_SEC by now
HbRoutine(reach, k) ==
    /\ hb.phase = "events"
    /\ k \in 0..Len(hb.unconfirm_orders)
    /\ LET s == CheckOrderTimeout(
                    CheckOrderSnapshot(HbStep("routine", NoOrder), reach), k)
       IN  /\ s.nroots <= MaxRoots
           /\ hb' = s
    /\ UNCHANGED <<apiVars, pollVars, botVars, pairVars, ledgerVars, runVars, tickVars, walletVars, lendVars>>

NextHbot ==
    \/ \E inError \in BOOLEAN, inTimeout \in BOOLEAN, book \in InitialBooks :
          HbConstruct(inError, inTimeout, book)
    \/ HbConnect
    \/ HbDisconnect
    \/ \E partial \in SUBSET HbIds, reach \in BOOLEAN :
          HbReceivedOrders(partial, reach)
    \/ \E i \in 1..MaxRoots, reach \in BOOLEAN : HbOrderNew(i, reach)
    \/ \E i \in 1..MaxRoots, text \in ErrorTexts : HbOrderError(i, text)
    \/ \E o \in hb.book, reach \in BOOLEAN,
          status \in {"EXECUTED", "EXECUTED was PARTIALLY FILLED"} :
          HbOrderExecuted(o, status, reach)
    \/ \E reach \in BOOLEAN : HbOrderRepeated(reach)
    \/ \E o \in hb.book : HbOrderCanceled(o)
    \/ \E reach \in BOOLEAN, k \in 0..MaxRoots : HbRoutine(reach, k)


(***************************************************************************)
(* trade_hbot: ticks, wallets and the queues of account events.  The        *)
(* record ht has the fields of hb that the handlers above read and write,   *)
(* so the operators of the order table are used as they are.                *)
(***************************************************************************)

\* cfg['limit'] and cfg['hold'] of the pair
CfgLimit == 5

CfgHold == 0

NUM_ORDERS_TO_HOLD == 3

\* the number of grid steps below the last price where a buy is cancelled
CANCEL_STEPS == 5

\* the last prices the ticker reports, the exchange balances of the coin
TickPrices == {8, 256}

Balances == {12, 15}

\* the logical orders the bot submits in one behaviour, the ids the
\* exchange issues and the times the server opens the connection
MaxTickRoots == 3

MaxTickId == 3

MaxTickOpened == 2

\* --init and --recover exclude each other (main)
Modes == {"none", "init", "recover"}

\* the orders the account holds when the bot starts
TickBooks ==
    {{HbOrder(1, 4, CfgAmount, CfgAmount, "ACTIVE"),
      HbOrder(2, 8, -CfgAmount, -CfgAmount, "ACTIVE")},
     {HbOrder(1, 2, CfgAmount, CfgAmount, "ACTIVE"),
      HbOrder(2, 8, -CfgAmount, -CfgAmount, "ACTIVE")}}

\* _num_coins holds the balance of the one coin, or has no key for it
NoCoins == -1

\* a notification on a new order
Note(status, price, amount_orig, amount) ==
    [status |-> status, price |-> price, amount_orig |-> amount_orig,
     amount |-> amount]

\* got holds the snapshots the socket delivered since the server opened
\* the connection.
\* the handler that ran last: as HbLastNone, and whether process_tick
\* found both snapshot flags set, the pairs it took from the init and
\* recover lists, the ids whose cancellation was requested, the account
\* events the pass found in the queues and those it left there
HtLastNone ==
    [op |-> "none", order |-> NoOrder, k |-> 0, partial |-> {},
     out |-> << >>, fixed |-> {}, exc |-> "none",
     gate |-> FALSE, removed |-> {}, cancels |-> {}, found |-> 0,
     left |-> 0]

HtIdle ==
    [phase |-> "idle", buy_currency |-> FALSE,
     retry_order_in_error |-> FALSE, retry_order_in_timeout |-> FALSE,
     init_pairs |-> {}, recover_pairs |-> {},
     conn |-> "down", opened |-> 0,
     wsSnapshot |-> FALSE, wsWallet |-> FALSE,
     received_order_snapshot |-> FALSE,
     received_wallet_snapshot |-> FALSE,
     last_price |-> 0, num_coins |-> NoCoins,
     orders |-> {}, unconfirm_orders |-> << >>,
     orders_before_disconnect |-> {},
     book |-> {}, nid |-> 1, nroots |-> 0, cancelReq |-> {},
     order_new |-> << >>, order_cancel |-> << >>, notifications |-> << >>,
     got |-> {}, last |-> HtLastNone]

\* TradeHelper.get_remain_times, CRYPTO
GetRemainTimes(balance) == (balance - CfgHold) \div CfgAmount

\* TradeHelper.is_reach_limit, CRYPTO
IsReachLimit(balance) ==
    IF CfgLimit = 0 THEN FALSE
    ELSE balance - CfgHold >= CfgAmount * CfgLimit

\* check_and_buy_currency(symbol, cfg, balance): allow_buy tells that
\* BUY_CURRENCY_COOLDOWN_SEC have passed since the last purchase
CheckAndBuyCurrency(s, balance, allow_buy) ==
    IF s.last_price = 0 THEN [s |-> s, wait |-> FALSE]
    ELSE LET remain_times == GetRemainTimes(balance)
         IN  IF remain_times <= NUM_ORDERS_TO_HOLD
             THEN IF s.buy_currency /\ allow_buy
                  THEN [s |-> NewOrder(s, 0,
                                 GetBuyAmountAtPrice(s.last_price)
                                   * (NUM_ORDERS_TO_HOLD - remain_times + 2),
                                 -1, 0),
                        wait |-> TRUE]
                  ELSE [s |-> s, wait |-> TRUE]
             ELSE [s |-> s, wait |-> FALSE]

\* process_wallet(wallet) for the exchange wallet of the coin
ProcessWallet(s, balance, allow_buy) ==
    CheckAndBuyCurrency([s EXCEPT !.num_coins = balance],
                        balance, allow_buy).s

\* WebSocketApi.cancel_order for the orders in ids: the request reaches
\* the exchange when the connection is up
SendCancels(s, ids) ==
    [s EXCEPT !.cancelReq = IF s.conn = "up" THEN @ \cup ids ELSE @,
              !.last.cancels = @ \cup ids]

\* cancel_all_buy_orders
CancelAllBuyOrders(s) ==
    IF s.last_price = 0 THEN s
    ELSE LET cancel_price == GetLowerPrice(s.last_price, CANCEL_STEPS)
             cancel_orders == {o \in s.orders :
                                 /\ IsBotOrder(o)
                                 /\ o.amount_orig > 0
                                 /\ o.price < cancel_price}
         IN  [SendCancels(s, {o.id : o \in cancel_orders})
                EXCEPT !.orders = @ \ cancel_orders]

\* create_init_orders(symbol)
CreateInitOrders(s, symbol, allow_buy) ==
    LET s1 == [SendCancels(s, TableIds(s)) EXCEPT !.orders = {}]
        num_coins == IF s.num_coins # NoCoins THEN s.num_coins ELSE 0
        c == CheckAndBuyCurrency(s1, num_coins, allow_buy)
    IN  IF c.wait THEN c.s
        ELSE [SetOrdersByPrice(c.s, s.last_price, "BUY",
                               IsReachLimit(s.num_coins))
                EXCEPT !.init_pairs = @ \ {symbol},
                       !.last.removed = @ \cup {symbol}]

\* the lowest price of the orders in S, 0 for none
LowestPrice(S) ==
    IF S = {} THEN 0
    ELSE CHOOSE p \in {o.price : o \in S} : \A o \in S : p <= o.price

\* create_recover_orders(symbol)
CreateRecoverOrders(s, symbol) ==
    LET lowest_sell_price ==
            LowestPrice({o \in s.orders : ~(o.amount_orig > 0)})
        buy_price == GetLowerPrice(lowest_sell_price, CfgProfit + 1)
        amount == GetBuyAmountAtPrice(buy_price)
        s1 == IF ~CheckOrder(s, buy_price, amount, FALSE)
              THEN NewOrder(s, buy_price, amount, -1, 0)
              ELSE s
    IN  [s1 EXCEPT !.recover_pairs = @ \ {symbol},
                   !.last.removed = @ \cup {symbol}]

\* process_tick(ticker)
ProcessTick(s, symbol, price, allow_buy) ==
    LET s0 == [s EXCEPT !.last_price = price]
    IN  IF s0.received_order_snapshot /\ s0.received_wallet_snapshot
        THEN LET s1 == IF symbol \in s0.init_pairs
                       THEN CreateInitOrders(
                                [s0 EXCEPT !.last.gate = TRUE], symbol,
                                allow_buy)
                       ELSE [s0 EXCEPT !.last.gate = TRUE]
             IN  IF symbol \in s1.recover_pairs
                 THEN CreateRecoverOrders(s1, symbol)
                 ELSE s1
        ELSE s0

\* a reset that leaves the snapshot flags of the bot as they are
ResetTick_KeepFlags(s) ==
    [s EXCEPT !.orders = {}, !.num_coins = NoCoins, !.last_price = 0]

\* reset(): Reset and the wallet, the wallet flag and the last prices
ResetTick(s) ==
    [Reset(s) EXCEPT !.num_coins = NoCoins,
                     !.received_wallet_snapshot = FALSE,
                     !.last_price = 0]

\* check_wallet_snapshot
CheckWalletSnapshot(s) ==
    IF s.received_wallet_snapshot THEN s
    ELSE [s EXCEPT !.received_wallet_snapshot = s.wsWallet]

\* the loop over one queue of order updates: an update is taken from the
\* queue before process_order is called with it
RECURSIVE DrainOrders(_, _)
DrainOrders(s, queue) ==
    IF queue = << >> \/ s.last.exc # "none"
    THEN [s |-> s, rest |-> queue]
    ELSE DrainOrders(ProcessOrder(s, Head(queue), FALSE), Tail(queue))

RECURSIVE DrainNotifications(_, _)
DrainNotifications(s, queue) ==
    IF queue = << >> \/ s.last.exc # "none"
    THEN [s |-> s, rest |-> queue]
    ELSE LET n == Head(queue)
         IN  DrainNotifications(
                 ProcessNotification(s, n.status, "none", n.price,
                                     n.amount_orig, n.amount),
                 Tail(queue))

\* __check_account_info for the queues order_new, order_cancel and
\* notifications: a KeyError ends the pass and is dropped
CheckAccountInfo(s) ==
    LET a == DrainOrders(s, s.order_new)
        b == DrainOrders(a.s, s.order_cancel)
        c == DrainNotifications(b.s, s.notifications)
    IN  [c.s EXCEPT !.order_new = a.rest,
                    !.order_cancel = b.rest,
                    !.notifications = c.rest,
                    !.last.found = Len(s.order_new) + Len(s.order_cancel)
                                     + Len(s.notifications),
                    !.last.left = Len(a.rest) + Len(b.rest) + Len(c.rest)]

HtStep(op) == [ht EXCEPT !.last = [HtLastNone EXCEPT !.op = op]]

\* TradeBot.__init__ and the arguments of main
HtConstruct(mode, buy_currency, book) ==
    /\ ht.phase = "idle"
    /\ ht' = [ht EXCEPT
                !.phase = "events",
                !.buy_currency = buy_currency,
                !.init_pairs = IF mode = "init" THEN HbSymbols ELSE {},
                !.recover_pairs = IF mode = "recover" THEN HbSymbols ELSE {},
                !.book = book,
                !.nid = Cardinality(book) + 1]
    /\ UNCHANGED <<apiVars, pollVars, botVars, pairVars, ledgerVars, runVars,
                   hbotVars, walletVars, lendVars>>

\* __check_system: the server opened the connection; reset() and __connect
HtConnect ==
    /\ ht.phase = "events"
    /\ ht.conn = "down"
    /\ ht.opened < MaxTickOpened
    /\ ht' = [ResetTick(HtStep("reset")) EXCEPT
                !.conn = "up", !.opened = @ + 1,
                !.wsSnapshot = FALSE, !.wsWallet = FALSE, !.got = {}]
    /\ UNCHANGED <<apiVars, pollVars, botVars, pairVars, ledgerVars, runVars,
                   hbotVars, walletVars, lendVars>>

\* the connection drops; the requests that did not reach the exchange and
\* the answers that did not reach the bot are lost
HtDisconnect ==
    /\ ht.phase = "events"
    /\ ht.conn = "up"
    /\ ht.unconfirm_orders = << >>
    /\ ht' = [ht EXCEPT !.conn = "down", !.last = HtLastNone]
    /\ UNCHANGED <<apiVars, pollVars, botVars, pairVars, ledgerVars, runVars,
                   hbotVars, walletVars, lendVars>>

\* __received_wallets: the snapshot of the wallets, with or without an
\* exchange wallet of the coin
HtReceivedWallets(wallets, allow_buy) ==
    /\ ht.phase = "events"
    /\ ht.conn = "up"
    /\ ~ht.wsWallet
    /\ LET s0 == HtStep("wallets")
           s == IF wallets = << >> THEN s0
                ELSE ProcessWallet(s0, wallets[1], allow_buy)
       IN  /\ s.nroots <= MaxTickRoots
           /\ ht' = [s EXCEPT !.wsWallet = TRUE,
                              !.got = @ \cup {"wallets"}]
    /\ UNCHANGED <<apiVars, pollVars, botVars, pairVars, ledgerVars, runVars,
                   hbotVars, walletVars, lendVars>>

\* __received_orders: the snapshot of the resting orders
HtReceivedOrders ==
    /\ ht.phase = "events"
    /\ ht.conn = "up"
    /\ ~ht.wsSnapshot
    /\ LET s == ReceivedOrders(HtStep("snapshot"), ht.book, FALSE)
       IN  ht' = [s EXCEPT !.wsSnapshot = TRUE,
                          !.got = @ \cup {"orders"}]
    /\ UNCHANGED <<apiVars, pollVars, botVars, pairVars, ledgerVars, runVars,
                   hbotVars, walletVars, lendVars>>

\* __received_tickers: one tick of the pair
HtReceivedTickers(price, allow_buy) ==
    /\ ht.phase = "events"
    /\ ht.conn = "up"
    /\ price # ht.last_price \/ ht.init_pairs \cup ht.recover_pairs # {}
    /\ \E symbol \in HbSymbols :
          LET s == ProcessTick(HtStep("tick"), symbol, price, allow_buy)
          IN  /\ s.nroots <= MaxTickRoots
              /\ ht' = s
    /\ UNCHANGED <<apiVars, pollVars, botVars, pairVars, ledgerVars, runVars,
                   hbotVars, walletVars, lendVars>>

\* the exchange accepts the order of the i-th unconfirmed entry: a limit
\* order rests in the book and is reported as new, a market order is
\* filled; the note follows
HtOrderNew(i) ==
    /\ ht.phase = "events"
    /\ ht.conn = "up"
    /\ i \in DOMAIN ht.unconfirm_orders
    /\ ht.unconfirm_orders[i].sent
    /\ ht.nid <= MaxTickId
    /\ LET p == ht.unconfirm_orders[i]
           limit == p.price > 0
           order == HbOrder(ht.nid, IF limit THEN p.price ELSE 0, p.amount,
                            p.amount, "ACTIVE")
       IN  ht' = [Answered(ht, i) EXCEPT
                    !.last = HtLastNone,
                    !.book = IF limit THEN @ \cup {order} ELSE @,
                    !.nid = @ + 1,
                    !.order_new = IF limit THEN Append(@, order) ELSE @,
                    !.notifications =
                        Append(@, Note("SUCCESS", order.price,
                                       order.amount_orig, order.amount))]
    /\ UNCHANGED <<apiVars, pollVars, botVars, pairVars, ledgerVars, runVars,
                   hbotVars, walletVars, lendVars>>

\* the exchange cancels an order as requested
HtOrderCanceled(o) ==
    /\ ht.phase = "events"
    /\ ht.conn = "up"
    /\ o \in ht.book
    /\ o.id \in ht.cancelReq
    /\ ht' = [ht EXCEPT
                !.last = HtLastNone,
                !.book = @ \ {o},
                !.cancelReq = @ \ {o.id},
                !.order_cancel = Append(@, [o EXCEPT !.status = "CANCELED"])]
    /\ UNCHANGED <<apiVars, pollVars, botVars, pairVars, ledgerVars, runVars,
                   hbotVars, walletVars, lendVars>>

\* check_events with account events in the queues
HtCheckAccountInfo ==
    /\ ht.phase = "events"
    /\ Len(ht.order_new) + Len(ht.order_cancel) + Len(ht.notifications) > 0
    /\ ht' = CheckAccountInfo(HtStep("account"))
    /\ UNCHANGED <<apiVars, pollVars, botVars, pairVars, ledgerVars, runVars,
                   hbotVars, walletVars, lendVars>>

\* run() after check_events: check_order_snapshot, check_wallet_snapshot,
\* check_order_timeout and cancel_all_buy_orders, at a time when no
\* unconfirmed entry is older than ORDER_TIMEOUT_SEC
HtRoutine ==
    /\ ht.phase = "events"
    /\ LET s == CancelAllBuyOrders(
                    CheckOrderTimeout(
                        CheckWalletSnapshot(
                            CheckOrderSnapshot(HtStep("routine"), FALSE)),
                        0))
       IN  /\ s.nroots <= MaxTickRoots
           /\ s # ht
           /\ ht' = s
    /\ UNCHANGED <<apiVars, pollVars, botVars, pairVars, ledgerVars, runVars,
                   hbotVars, walletVars, lendVars>>

NextTick ==
    \/ \E mode \in Modes, buy_currency \in BOOLEAN, book \in TickBooks :
          HtConstruct(mode, buy_currency, book)
    \/ HtConnect
    \/ HtDisconnect
    \/ \E wallets \in {<< >>} \cup {<<b>> : b \in Balances},
          allow_buy \in BOOLEAN :
          HtReceivedWallets(wallets, allow_buy)
    \/ HtReceivedOrders
    \/ \E price \in TickPrices, allow_buy \in BOOLEAN :
          HtReceivedTickers(price, allow_buy)
    \/ \E i \in 1..MaxTickRoots : HtOrderNew(i)
    \/ \E o \in ht.book : HtOrderCanceled(o)
    \/ HtCheckAccountInfo
    \/ HtRoutine

(***************************************************************************)
(* wallet_stats: Intervals and Wallet.fetch for one currency               *)
(***************************************************************************)

\* timestamps are the seconds 0 .. MaxTime
MaxTime == 4

Times == 0 .. MaxTime

\* `limit = 1000` of _fetch_one_currency: the page size, scaled down
limit == 2

\* the exchange holds at most MaxRecords ledger entries of the currency
MaxRecords == 3

NoTime == -1

\* an interval is a pair <<start, end>>, a list [start, end] in the code
Smaller(a, b) == IF a <= b THEN a ELSE b

\* the integers one interval covers, and a list of intervals
PointsOf(it) == it[1] .. it[2]

Covered(data) == UNION {PointsOf(data[i]) : i \in 1 .. Len(data)}

\* list comparison of Python: first elements, then second elements
ListLess(a, b) == a[1] < b[1] \/ (a[1] = b[1] /\ a[2] < b[2])

RECURSIVE InsertSorted(_, _)
InsertSorted(s, it) ==
    IF s = << >> THEN <<it>>
    ELSE IF ListLess(it, Head(s)) THEN <<it>> \o s
    ELSE <<Head(s)>> \o InsertSorted(Tail(s), it)

\* sorted(new_data)
RECURSIVE Sorted(_)
Sorted(s) ==
    IF s = << >> THEN << >>
    ELSE InsertSorted(Sorted(SubSeq(s, 1, Len(s) - 1)), s[Len(s)])

\* the for loop of Intervals.add: an interval that overlaps or touches
\* [start, end] is merged into it, any other one is kept
RECURSIVE AddLoop(_, _, _, _)
AddLoop(data, start, end, new_data) ==
    IF data = << >> THEN Append(new_data, <<start, end>>)
    ELSE LET it == Head(data)
         IN  IF it[2] + 1 >= start /\ it[1] - 1 <= end
             THEN AddLoop(Tail(data), Smaller(it[1], start),
                          Larger(it[2], end), new_data)
             ELSE AddLoop(Tail(data), start, end, Append(new_data, it))

\* an add that keeps every stored interval as it is
IntervalsAdd_NoUnion(data, start, end) ==
    IF end < start THEN data
    ELSE Sorted(Append(data, <<start, end>>))

\* Intervals.add(start, end)
IntervalsAdd(data, start, end) ==
    IF end < start THEN data
    ELSE Sorted(AddLoop(data, start, end, << >>))

\* the for loop of Intervals.sub, with its break
RECURSIVE SubLoop(_, _, _, _)
SubLoop(data, start, end, result) ==
    IF data = << >> THEN [start |-> start, result |-> result]
    ELSE LET it == Head(data)
         IN  IF start > end \/ it[2] > end
             THEN [start |-> start, result |-> result]
             ELSE SubLoop(Tail(data), Larger(start, it[2] + 1), end,
                          IF start < it[1]
                          THEN Append(result,
                                      <<start, Smaller(it[1] - 1, end)>>)
                          ELSE result)

\* Intervals.sub(start, end).data
IntervalsSub(data, start, end) ==
    LET l == SubLoop(data, start, end, << >>)
    IN  IF l.start <= end THEN Append(l.result, <<l.start, end>>)
        ELSE l.result

\* the histories the exchange can hold: the number of ledger entries of
\* the currency in each second
Histories ==
    LET RECURSIVE Sum(_, _)
        Sum(h, t) == IF t < 0 THEN 0 ELSE h[t] + Sum(h, t - 1)
    IN  {h \in [Times -> 0 .. limit] : Sum(h, MaxTime) <= MaxRecords}

NoHistory == [t \in Times |-> 0]

\* the entries outside [since, until] are never part of an answer
HistoriesWithin(since, until) ==
    {h \in Histories : \A t \in Times \ (since .. until) : h[t] = 0}

\* v1.history(currency, since, until, limit): the entries of
\* [since, until], newest first, at most limit of them.  The answer is
\* given by its length and by the timestamp of its last entry.
RECURSIVE HistoryFrom(_, _, _, _)
HistoryFrom(h, since, t, n) ==
    IF t < since THEN [len |-> n, oldest |-> NoTime]
    ELSE IF n + h[t] >= limit THEN [len |-> limit, oldest |-> t]
    ELSE HistoryFrom(h, since, t - 1, n + h[t])

History(h, since, until) == HistoryFrom(h, since, until, 0)

WsLastNone == [op |-> "none", start |-> NoTime, end |-> NoTime,
               before |-> << >>, result |-> << >>]

\* data: self.fetched[currency].data.  added: every second an add call
\* was given.  hist: the exchange's ledger.  to_fetch: the intervals
\* Wallet.fetch still has to hand to _fetch_one_currency.  since, until:
\* the variables of the running _fetch_one_currency, arg its arguments.
WsIdle == [phase |-> "idle", data |-> << >>, added |-> {},
           hist |-> NoHistory, to_fetch |-> << >>,
           since |-> NoTime, until |-> NoTime, arg |-> <<NoTime, NoTime>>,
           last |-> WsLastNone]

\* the for loop of Wallet.fetch takes the next interval, or ends
NextToFetch(s) ==
    IF s.to_fetch = << >>
    THEN [s EXCEPT !.phase = "idle", !.hist = NoHistory,
                   !.since = NoTime, !.until = NoTime]
    ELSE LET it == Head(s.to_fetch)
         IN  [s EXCEPT !.phase = "fetch", !.to_fetch = Tail(@),
                       !.since = it[1], !.until = it[2], !.arg = it,
                       !.last = WsLastNone]

\* Intervals.add, called on the intervals of the currency
WsAdd(start, end) ==
    /\ ws.phase = "idle"
    /\ ws' = [ws EXCEPT !.data = IntervalsAdd(@, start, end),
                        !.added = @ \cup (start .. end),
                        !.last = [WsLastNone EXCEPT !.op = "add",
                                     !.start = start, !.end = end,
                                     !.before = ws.data]]
    /\ UNCHANGED <<apiVars, pollVars, botVars, pairVars, ledgerVars, runVars,
                   hbotVars, tickVars, lendVars>>

\* Intervals.sub, called on the intervals of the currency
WsSub(start, end) ==
    /\ ws.phase = "idle"
    /\ start <= end
    /\ ws' = [ws EXCEPT !.last = [WsLastNone EXCEPT !.op = "sub",
                                     !.start = start, !.end = end,
                                     !.before = ws.data,
                                     !.result = IntervalsSub(ws.data,
                                                             start, end)]]
    /\ UNCHANGED <<apiVars, pollVars, botVars, pairVars, ledgerVars, runVars,
                   hbotVars, tickVars, lendVars>>

\* Wallet.fetch up to the first call of _fetch_one_currency
WsFetch(since, until, h) ==
    /\ ws.phase = "idle"
    /\ since <= until
    /\ ws' = NextToFetch([ws EXCEPT
                 !.hist = h,
                 !.to_fetch = IntervalsSub(ws.data, since, until),
                 !.last = [WsLastNone EXCEPT !.op = "fetch",
                              !.start = since, !.end = until,
                              !.before = ws.data]])
    /\ UNCHANGED <<apiVars, pollVars, botVars, pairVars, ledgerVars, runVars,
                   hbotVars, tickVars, lendVars>>

\* one turn of the while loop of _fetch_one_currency; when its condition
\* fails the call returns and Wallet.fetch goes on
FetchOneCurrencyStep(s) ==
    IF s.since > s.until
    THEN [NextToFetch(s) EXCEPT
            !.last = IF s.to_fetch = << >>
                     THEN [WsLastNone EXCEPT !.op = "returned",
                              !.start = s.arg[1], !.end = s.arg[2]]
                     ELSE @]
    ELSE LET result == History(s.hist, s.since, s.until)
         IN  IF s.since = s.until /\ ~(result.len < limit)
             THEN [s EXCEPT !.phase = "AssertionError"]
             ELSE IF result.len < limit
             THEN [s EXCEPT !.data = IntervalsAdd(@, s.since, s.until),
                            !.added = @ \cup (s.since .. s.until),
                            !.until = s.since - 1]
             ELSE [s EXCEPT !.data = IntervalsAdd(@, result.oldest + 1,
                                                  s.until),
                            !.added = @ \cup (result.oldest + 1 .. s.until),
                            !.until = result.oldest]

WsFetchStep ==
    /\ ws.phase = "fetch"
    /\ ws' = FetchOneCurrencyStep(ws)
    /\ UNCHANGED <<apiVars, pollVars, botVars, pairVars, ledgerVars, runVars,
                   hbotVars, tickVars, lendVars>>

NextWallet ==
    \/ \E start \in Times, end \in Times : WsAdd(start, end)
    \/ \E start \in Times, end \in Times : WsSub(start, end)
    \/ \E since \in Times, until \in Times :
          \E h \in HistoriesWithin(since, until) : WsFetch(since, until, h)
    \/ WsFetchStep

(***************************************************************************)
(* trade_hbot: LendBotControl                                              *)
(***************************************************************************)

MOVE_WALLET_COOLDOWN_SEC == 60

NUM_ORDERS_TO_PREPARE == 6

\* the clock runs from ClockStart in steps of ClockStep seconds;
\* _last_move_wallet_timestamp starts at 0, more than a cooldown before
ClockStep == 30

ClockStart == 60

MaxClock == 180

\* USD balances the wallets can report
UsdBalances == {0, 2, 5, 7, 8, 12, 15}

\* control_lendbot settings that check_config accepts
\* (start_threshold > target > stop_threshold), as fractions num / den
CfgTarget == [num |-> 1, den |-> 2]

CfgStartThreshold == [num |-> 1, den |-> 1]

CfgStopThreshold == [num |-> 1, den |-> 4]

\* bot_config['symbols']: the type and the amount of every symbol
LendSymbols ==
    { [s \in {"BTCUSD"} |-> [type |-> "usd", amount |-> 1]],
      [s \in {"BTCUSD"} |-> [type |-> "btc", amount |-> 1]],
      [s \in {"BTCUSD", "ETHUSD"} |-> [type |-> "USD", amount |-> 1]] }

\* str.upper() of the types that occur
Upper(type) == IF type = "usd" THEN "USD"
               ELSE IF type = "btc" THEN "BTC" ELSE type

\* __get_minimum_required_balance
GetMinimumRequiredBalance(symbols) ==
    LET RECURSIVE Total(_)
        Total(S) ==
            IF S = {} THEN 0
            ELSE LET s == CHOOSE x \in S : TRUE
                 IN  (IF Upper(symbols[s].type) = "USD"
                      THEN symbols[s].amount * NUM_ORDERS_TO_PREPARE
                      ELSE 0) + Total(S \ {s})
    IN  Total(DOMAIN symbols)

\* a / b for b > 0 as decimal division gives it: rounded to the last digit
\* kept (the unit of the model), half to even
DecimalDivide(a, b) ==
    LET q == a \div b
        r == a % b
    IN  IF 2 * r < b THEN q
        ELSE IF 2 * r > b THEN q + 1
        ELSE IF q % 2 = 0 THEN q ELSE q + 1

\* (exchange_balance - target * funding_balance) / (target + 1)
TargetAmount(exchange_balance, funding_balance) ==
    DecimalDivide(CfgTarget.den * exchange_balance
                      - CfgTarget.num * funding_balance,
                  CfgTarget.num + CfgTarget.den)

\* x > funding_balance * threshold and x < funding_balance * threshold
Above(x, funding_balance, th) == x * th.den > funding_balance * th.num

Below(x, funding_balance, th) == x * th.den < funding_balance * th.num

LbLastNone == [op |-> "none", exchange_balance |-> 0, funding_balance |-> 0,
               moved |-> FALSE, amount |-> 0, at |-> NoTime,
               prev |-> NoTime, reply |-> "none"]

\* now: time.time().  lendbot_file: whether the stop file exists.
\* issued: when the last transfer request was sent.
LbIdle == [phase |-> "idle", enable |-> FALSE, minimum_required_balance |-> 0,
           last_move_wallet_timestamp |-> 0, lendbot_start |-> "None",
           lendbot_file |-> FALSE, now |-> ClockStart, issued |-> NoTime,
           last |-> LbLastNone]

\* the cooldown test of a check_balance that does not look at the clock
InCooldown_Never(now, timestamp) == FALSE

\* time.time() - self._last_move_wallet_timestamp < MOVE_WALLET_COOLDOWN_SEC
InCooldown(now, timestamp) == now - timestamp < MOVE_WALLET_COOLDOWN_SEC

\* check_balance; a transfer it issues takes `took` seconds and is answered
\* with reply (__move_wallet swallows the BitfinexClientError)
CheckBalance(s, exchange_balance, funding_balance, took, reply) ==
    LET s0 == [s EXCEPT !.last = [LbLastNone EXCEPT
                          !.op = "check_balance",
                          !.exchange_balance = exchange_balance,
                          !.funding_balance = funding_balance]]
    IN  IF ~s.enable THEN s0
        ELSE IF InCooldown(s.now, s.last_move_wallet_timestamp) THEN s0
        ELSE IF Above(exchange_balance, funding_balance, CfgStartThreshold)
                /\ exchange_balance > s.minimum_required_balance
        THEN LET t0 == TargetAmount(exchange_balance, funding_balance)
                 target_amount ==
                     IF exchange_balance - t0 < s.minimum_required_balance
                     THEN exchange_balance - s.minimum_required_balance
                     ELSE t0
                 s1 == [s0 EXCEPT !.lendbot_file = FALSE,
                                  !.lendbot_start = "True"]
             IN  IF target_amount > 0
                 THEN [s1 EXCEPT !.now = @ + took,
                                 !.last_move_wallet_timestamp = s.now + took,
                                 !.issued = s.now,
                                 !.last.moved = TRUE,
                                 !.last.amount = target_amount,
                                 !.last.at = s.now,
                                 !.last.prev = s.issued,
                                 !.last.reply = reply]
                 ELSE s1
        ELSE IF Below(exchange_balance, funding_balance, CfgStopThreshold)
        THEN [s0 EXCEPT !.lendbot_start = "False", !.lendbot_file = TRUE]
        ELSE s0

\* LendBotControl(stop_file, bot_config); the stop file may exist already
LbConstruct(enable, symbols, file) ==
    /\ lb.phase = "idle"
    /\ lb' = [lb EXCEPT !.phase = "run", !.enable = enable,
                        !.minimum_required_balance =
                            GetMinimumRequiredBalance(symbols),
                        !.lendbot_file = file]
    /\ UNCHANGED <<apiVars, pollVars, botVars, pairVars, ledgerVars, runVars,
                   hbotVars, tickVars, walletVars>>

\* time passes between two wallet messages
LbTick ==
    /\ lb.phase = "run"
    /\ lb.now + ClockStep <= MaxClock
    /\ lb' = [lb EXCEPT !.now = @ + ClockStep, !.last = LbLastNone]
    /\ UNCHANGED <<apiVars, pollVars, botVars, pairVars, ledgerVars, runVars,
                   hbotVars, tickVars, walletVars>>

\* check_lendbot with both USD wallets known
LbCheckBalance(exchange_balance, funding_balance, took, reply) ==
    /\ lb.phase = "run"
    /\ LET s == CheckBalance(lb, exchange_balance, funding_balance, took,
                             reply)
       IN  /\ s.now <= MaxClock
           /\ ~s.last.moved => (took = 0 /\ reply = "ok")
           /\ lb' = s
    /\ UNCHANGED <<apiVars, pollVars, botVars, pairVars, ledgerVars, runVars,
                   hbotVars, tickVars, walletVars>>

NextLend ==
    \/ \E enable \in BOOLEAN, symbols \in LendSymbols, file \in BOOLEAN :
          LbConstruct(enable, symbols, file)
    \/ LbTick
    \/ \E exchange_balance \in UsdBalances, funding_balance \in UsdBalances :
          LET moves == CheckBalance(lb, exchange_balance, funding_balance,
                                    0, "ok").last.moved
          IN  \E took \in (IF moves THEN {0, ClockStep} ELSE {0}),
                 reply \in (IF moves THEN {"ok", "BitfinexClientError"}
                            ELSE {"ok"}) :
                    LbCheckBalance(exchange_balance, funding_balance, took,
                                   reply)

vars == <<http, poll, bot, pc, watched, paired, todo, polled, exch, nextId,
          nUser, cancelled_orders, executed_orders, cancelReq, cancelOk,
          cancelFailed, last, iter, pair, orders, watched_orders,
          paired_orders, call, run, hb, ht, ws, lb>>

Init ==
    /\ http = HttpIdle
    /\ poll = PollIdle
    /\ bot \in Bots
    /\ pc = "cleanup"
    /\ watched = {}
    /\ paired = NoPairs
    /\ todo = {}
    /\ polled = {}
    /\ exch = [i \in Ids |-> "none"]
    /\ nextId = 1
    /\ nUser = 0
    /\ cancelled_orders = {}
    /\ executed_orders = {}
    /\ cancelReq = {}
    /\ cancelOk = {}
    /\ cancelFailed = {}
    /\ last = LastNone
    /\ iter = IterNone
    /\ pair = PairIdle
    /\ orders = << >>
    /\ watched_orders = << >>
    /\ paired_orders = << >>
    /\ call = CallNone
    /\ run = RunIdle
    /\ hb = HbIdle
    /\ ht = HtIdle
    /\ ws = WsIdle
    /\ lb = LbIdle

SpecApi == Init /\ [][NextApi]_vars

SpecPoll == Init /\ [][NextPoll]_vars

Spec == Init /\ [][NextBot]_vars

SpecPair == Init /\ [][NextPair]_vars

SpecLedger == Init /\ [][NextLedger]_vars

SpecRun == Init /\ [][NextRun]_vars

\* trade_hbot runs alone: the grid bots rest in the initial state of one
InitHbot == Init /\ bot = "trade_bot"

SpecHbot == InitHbot /\ [][NextHbot]_vars

SpecTick == InitHbot /\ [][NextTick]_vars

SpecWallet == InitHbot /\ [][NextWallet]_vars

\* the loop of _fetch_one_currency is sequential code: a turn that can run
\* does run
SpecFetch == SpecWallet /\ WF_vars(WsFetchStep)

SpecLend == InitHbot /\ [][NextLend]_vars

(***************************************************************************)
(* Properties of the exchange client (SpecApi)                             *)
(***************************************************************************)

PlacementOps == {"new_limit_order", "new_market_order"}

\* a connection error, a timeout or a 5xx answer
IsTransient(ev) == ev \in Exceptions \/ Is5xx(ev)

RetrySafe == http.api = "public_req" \/ http.allow_retry

\* C4: an order placement (allow_retry=False) that meets a connection error,
\* a timeout or a 5xx answer makes exactly one HTTP attempt, never sleeps
\* and raises BitfinexClientError to the caller at once.
C4_PlacementNeverResent ==
    (/\ http.op \in PlacementOps
     /\ Len(http.events) >= 1
     /\ IsTransient(http.events[1]))
    => /\ Len(http.events) = 1
       /\ http.sleeps = << >>
       /\ http.outcome = "raise"
       /\ http.exc = "BitfinexClientError"

C4_Witness ==
    /\ http.op = "new_limit_order"
    /\ http.events = << ConnectionError >>
    /\ http.outcome = "raise"

\* C5: every authenticated request that is answered with a rate-limit error
\* sleeps the 20 s cool-down and, below the bound of 5 attempts, is sent
\* again, order placements with allow_retry=False included.
C5_RateLimitRetriedForEveryOperation ==
    http.api \in {"v1_auth_req", "v2_auth_req"}
    => \A k \in 1..Len(http.events) :
          IsRateLimit(http.api, http.events[k])
          => /\ Len(http.sleeps) >= k
             /\ http.sleeps[k] = RATE_LIMIT_SLEEP
             /\ k < MAX_RETRY
                => (Len(http.events) > k \/ http.outcome = "running")

\* C6: a retry-safe request whose attempts all failed ends by raising
\* BitfinexClientError built from the answer of its last attempt: no other
\* exception, no earlier answer, no return value.
C6_ExhaustedRetriesRaiseClientError ==
    (/\ HttpDone
     /\ RetrySafe
     /\ \A k \in 1..Len(http.events) : http.events[k].status # 200)
    => /\ http.outcome = "raise"
       /\ http.exc = "BitfinexClientError"
       /\ http.respAt \in {0, Len(http.events)}

\* C7: a retry-safe v1 request makes at most MAX_RETRY = 5 attempts, sleeps
\* 2^i seconds after its i-th attempt (counted from 0) when that attempt
\* met a connection error, a timeout or a 5xx answer, and makes no attempt
\* after an answer that is neither transient nor a rate limit.
C7_BoundedBackoff ==
    (RetrySafe /\ http.api \in {"v1_auth_req", "public_req"})
    => /\ MAX_RETRY = 5
       /\ Len(http.events) <= MAX_RETRY
       /\ \A k \in 1..Len(http.events) :
             /\ IsTransient(http.events[k])
                => (Len(http.sleeps) >= k /\ http.sleeps[k] = 2 ^ (k - 1))
             /\ (~IsTransient(http.events[k])
                 /\ ~IsRateLimit(http.api, http.events[k]))
                => (Len(http.events) = k /\ HttpDone)

(***************************************************************************)
(* Properties of the retry helpers (SpecPoll)                              *)
(***************************************************************************)

\* C8: _get_order_status calls the client at most 30 times; while every
\* answer is 'No such order found' it keeps calling and after the 30th it
\* returns None; a status is returned on the call that got it; any other
\* error is raised on the call where it occurs.
C8_GetOrderStatusBounded ==
    poll.fn = "_get_order_status"
    => /\ MAX_ORDER_STATUS_RETRIES = 30
       /\ poll.calls <= 30
       /\ poll.outcome = "running"
          => (poll.calls < 30 /\ poll.last \in {"none", "No such order found"})
       /\ poll.last = "No such order found"
          => /\ poll.sleeps = poll.calls
             /\ poll.calls < 30 => poll.outcome = "running"
             /\ poll.calls = 30 => (poll.outcome = "return" /\ poll.ret = "None")
       /\ poll.last = "status"
          => (poll.outcome = "return" /\ poll.ret = "status")
       /\ poll.last \in {"BitfinexClientError", "Exception"}
          => poll.outcome = "raise"
       /\ poll.ret = "None" => poll.calls = 30

C8_Witness ==
    /\ poll.fn = "_get_order_status"
    /\ poll.calls = 30
    /\ poll.outcome = "return"
    /\ poll.ret = "None"

(***************************************************************************)
(* Properties of the reconciliation loop (Spec)                            *)
(***************************************************************************)

\* C1: in both bots the pairing table is symmetric in every state of the
\* loop: _paired_orders[A] = B if and only if _paired_orders[B] = A.
C1_PairingSymmetric ==
    \A a \in Ids, b \in Ids : paired[a] = b <=> paired[b] = a

C1_Witness ==
    /\ last.completed
    /\ last.obs = "executed"
    /\ \E a \in last.placed : paired[a] \in last.placed

\* C2: in both bots, once the reaction to a paired order that was observed
\* cancelled or executed has completed, neither pairing entry of that pair
\* is left.
C2_PairingGoneAfterReaction ==
    (/\ last.completed
     /\ last.obs \in {"cancelled", "executed"}
     /\ last.sib # NoId)
    => /\ last.id \notin watched
       /\ paired[last.id] = NoId
       /\ paired[last.sib] = NoId

\* the end of a polling iteration in which exactly one order was observed
\* executed, a paired one, whose sibling was cancelled with success, with
\* both new legs placed and no other order leaving the ledger
OneExecutionPass ==
    /\ pc = "log"
    /\ Cardinality(iter.execs) = 1
    /\ Cardinality(iter.sibs) = 1
    /\ iter.sibs \subseteq cancelOk
    /\ iter.cancs \subseteq iter.sibs
    /\ iter.supp = {}
    /\ iter.skips = 0

\* C3 as stated: at the end of such an iteration the number of watched
\* orders equals the number at its start, whatever the polling order.
C3_CountRestoredInSamePass ==
    OneExecutionPass => Cardinality(watched) = iter.start

\* C3, amended: at the end of such an iteration the number of watched
\* orders equals the number at its start when the cancelled sibling was
\* polled after the executed order and observed cancelled in the same
\* iteration, and exceeds it by one otherwise: the sibling stays watched
\* until a later iteration observes it cancelled.
C3_CountRestoredOnceSiblingObserved ==
    OneExecutionPass
    => Cardinality(watched)
       = iter.start + (IF iter.sibs \subseteq iter.cancs THEN 0 ELSE 1)

C3_Witness ==
    /\ OneExecutionPass
    /\ iter.early # {}
    /\ Cardinality(watched) = iter.start + 1

\* C9: in trade_jbot an order whose cancellation was requested and failed
\* on every retry, and that is later observed executed, is removed from the
\* watched ledger and no buy or sell order is created in reaction to it.
C9_NoOrdersAfterFailedCancellation ==
    (/\ bot = "trade_jbot"
     /\ last.obs = "executed"
     /\ last.id \in cancelFailed)
    => /\ last.completed
       /\ last.suppressed
       /\ last.placed = {}
       /\ last.id \notin watched

C9_Witness ==
    /\ bot = "trade_jbot"
    /\ last.completed
    /\ last.obs = "executed"
    /\ last.id \in cancelFailed
    /\ last.suppressed
    /\ last.id \in executed_orders

\* C10 as stated: in trade_jbot the cancelled_orders set holds an id only
\* if its cancellation was requested and failed in the end; an order whose
\* cancellation succeeded is never in it.
C10_OnlyFailedCancellationsStored ==
    bot = "trade_jbot"
    => /\ cancelled_orders \subseteq cancelFailed
       /\ cancelled_orders \cap cancelOk = {}

\* C10, amended: in trade_jbot the cancelled_orders set holds exactly the
\* ids whose cancellation was requested, whether the request succeeded,
\* failed on every retry or raised.
C10_EveryRequestedCancellationStored ==
    bot = "trade_jbot" => cancelled_orders = cancelReq

C10_Witness ==
    /\ bot = "trade_jbot"
    /\ \E id \in cancelled_orders : id \in cancelOk /\ exch[id] = "cancelled"

\* a completed reaction to a paired order observed executed that went on
\* to place the new pair
ExecutedPairedReaction ==
    /\ last.completed
    /\ last.obs = "executed"
    /\ last.sib # NoId
    /\ ~last.suppressed

\* C11 as stated: the reaction to an executed order records it, unwatches
\* it, requests the cancellation of the sibling and removes the sibling
\* from the watched ledger, and only then places the new pair: the sibling
\* is not watched once the new pair is placed.
C11_SiblingUnwatchedBeforeNewPair ==
    ExecutedPairedReaction
    => /\ last.steps = <<"record", "unwatch", "cancel", "unpair", "place">>
       /\ last.id \in executed_orders
       /\ last.id \notin watched
       /\ last.sib \in cancelReq
       /\ last.sib \notin watched

\* C11, amended: the reaction to an executed order records it, unwatches
\* it, requests the cancellation of the sibling, removes both pairing
\* entries and only then places the new pair; it does not touch the
\* sibling's entry in the watched ledger, which is still there when the new
\* pair is placed if it was there before.
C11_RecordUnwatchCancelUnpairPlace ==
    ExecutedPairedReaction
    => /\ last.steps = <<"record", "unwatch", "cancel", "unpair", "place">>
       /\ last.id \in executed_orders
       /\ last.id \notin watched
       /\ last.sib \in cancelReq
       /\ paired[last.id] = NoId
       /\ paired[last.sib] = NoId
       /\ (last.sib \in watched) = last.sibWatched

C11_Witness ==
    /\ ExecutedPairedReaction
    /\ last.cancel = "ok"
    /\ Cardinality(last.placed) = 2
    /\ last.sib \in watched
    /\ exch[last.sib] = "cancelled"

\* C12: the reaction to an order observed cancelled removes that order from
\* the watched ledger and nothing else: no cancel request is sent, no order
\* is placed, nothing is recorded, the sibling stays watched.
C12_CancelledOnlyUnwatched ==
    [][(pc = "react" /\ last'.obs = "cancelled" /\ last'.completed)
       => /\ last'.id \in watched
          /\ watched' = watched \ {last'.id}
          /\ exch'[last'.id] = "cancelled"
          /\ \A j \in Ids \ {last'.id} : exch'[j] = exch[j]
          /\ cancelReq' = cancelReq
          /\ cancelled_orders' = cancelled_orders
          /\ nextId' = nextId
          /\ executed_orders' = executed_orders
          /\ last'.cancel = "none"
          /\ last'.placed = {}]_vars

C12_Witness ==
    /\ last.completed
    /\ last.obs = "cancelled"
    /\ last.sib \in watched
    /\ exch[last.sib] = "live"
    /\ last.id \notin watched

\* C13: when the status of a watched order is not found, the turn leaves
\* the order in the watched ledger and the pairing table as they are,
\* places, cancels and records nothing, and the loop goes on to the next id.
C13_NotFoundSkipped ==
    [][(pc = "react" /\ last'.id # NoId /\ ~last'.found)
       => /\ last'.obs = "notfound"
          /\ last'.id \in watched
          /\ watched' = watched
          /\ paired' = paired
          /\ exch' = exch
          /\ nextId' = nextId
          /\ cancelReq' = cancelReq
          /\ cancelled_orders' = cancelled_orders
          /\ executed_orders' = executed_orders
          /\ todo' = todo \ {last'.id}
          /\ pc' = IF todo' = {} THEN "log" ELSE "react"]_vars

C13_Witness ==
    /\ pc = "react"
    /\ last.obs = "notfound"
    /\ ~last.found
    /\ last.id \in watched
    /\ exch[last.id] = "executed"
    /\ paired[last.id] \in watched

(***************************************************************************)
(* Properties of _cancel_order (SpecPoll)                                  *)
(***************************************************************************)

CancelBound == IF poll.bot = "trade_bot" THEN 5 ELSE 10

PairCalled == pair.res.src # "none"

LegHandled(leg) == leg.out = "skipped" \/ leg.reply = "not enough"

\* C14: the two legs are independent: a sell leg that was skipped, or that
\* the exchange rejected for lack of balance, does not keep the buy leg from
\* being tried (and vice versa); each such leg gives exactly one 'not
\* enough' notification; every placed leg is added to the watched orders;
\* the pairing is recorded only when both legs were placed.
C14_LegsIndependent ==
    PairCalled =>
        LET r == pair.res
            n == (IF LegHandled(r.sell) THEN 1 ELSE 0)
                 + (IF LegHandled(r.buy) THEN 1 ELSE 0)
        IN  /\ (LegHandled(r.sell) /\ (pair.bot = "trade_bot" => pair.fiat.has))
                   => r.buy.out # "none"
            /\ LegHandled(r.buy) => r.sell.out # "none"
            /\ Len(r.notes) = n
            /\ LegHandled(r.sell) => r.notes[1] = "need_coin"
            /\ LegHandled(r.buy) => r.notes[Len(r.notes)] = "need_fiat"
            /\ "sell" \in r.watchedNew <=> r.sell.out = "placed"
            /\ "buy" \in r.watchedNew <=> r.buy.out = "placed"
            /\ r.paired => r.sell.out = "placed" /\ r.buy.out = "placed"

\* C15: trade_bot places no sell order when the cached available coin is
\* below the amount, and no buy order when the cached available fiat is
\* below price * amount; a buy leg whose price * amount * 2 exceeds the
\* cached fiat (fiat 5.00 against 20.00) is skipped.
C15_NoOrderBeyondCachedBalance ==
    (PairCalled /\ pair.bot = "trade_bot") =>
        LET r == pair.res
        IN  /\ r.sell.out = "placed" => ~(r.sell.avail.q < r.amount)
            /\ r.buy.out = "placed" =>
                   ~(r.buy.avail.q < r.buy.price.q * r.amount)
            /\ (r.buy.out # "none"
                /\ r.buy.avail.q < r.buy.price.q * r.amount * 2)
                   => r.buy.out = "skipped" /\ "buy" \notin r.watchedNew

C15_Witness ==
    /\ PairCalled
    /\ pair.bot = "trade_bot"
    /\ pair.res.buy.avail = Dec(5 * PriceScale)
    /\ DecTimes(pair.res.buy.price, pair.res.amount * 2) = Dec(20 * PriceScale)
    /\ pair.res.buy.out = "skipped"
    /\ pair.res.sell.out = "placed"

\* C16: the pair is priced from its reference price mid as sell = mid * (1 +
\* step) and buy = mid * (1 - step), with the configured step and the same
\* amount for both; mid is the last trade price in _create_initial_orders
\* and the average execution price in the reaction; unit 1, step 0.01 and
\* price 10.00 give 10.10 and 9.90, a fill at 9.90 gives 9.999 and 9.801.
C16_PairPricedFromMid ==
    PairCalled =>
        LET r == pair.res
        IN  /\ r.mid = IF r.src = "backfill" THEN r.last_price
                       ELSE r.avg_execution_price
            /\ r.amount = pair.cfg.unit
            /\ r.sell.out = "placed" =>
                   r.sell.price = Dec(r.mid * (CentScale + pair.cfg.step.q))
            /\ r.buy.out = "placed" =>
                   r.buy.price = Dec(r.mid * (CentScale - pair.cfg.step.q))
            /\ (r.paired /\ pair.cfg.unit = 1 /\ pair.cfg.step.q = 1
                /\ r.mid = 1000)
                   => r.sell.price = Dec(101000) /\ r.buy.price = Dec(99000)
            /\ (r.paired /\ pair.cfg.unit = 1 /\ pair.cfg.step.q = 1
                /\ r.mid = 990)
                   => r.sell.price = Dec(99990) /\ r.buy.price = Dec(98010)

(***************************************************************************)
(* Properties of the ledger calls (SpecLedger)                             *)
(***************************************************************************)

NewOrders(symbol) ==
    {id \in DOMAIN orders' \ DOMAIN orders : orders'[id].symbol = symbol}

\* C17: _create_initial_orders places orders for a target symbol only if no
\* watched order has that symbol when it runs, and then at most one sell
\* and one buy, both watched; a symbol with a watched order gets none, and
\* no order is placed for any other symbol.
C17_BackfillOnlyForSymbolsWithoutOrders ==
    [][call'.op = "backfill" =>
        /\ \A id \in DOMAIN orders : id \in DOMAIN orders' /\ orders'[id] = orders[id]
        /\ \A id \in DOMAIN orders' \ DOMAIN orders :
               /\ orders'[id].symbol \in TargetSymbols
               /\ id \in DOMAIN watched_orders'
               /\ watched_orders'[id] = orders'[id]
        /\ \A symbol \in TargetSymbols :
               /\ (\E id \in DOMAIN watched_orders :
                       watched_orders[id].symbol = symbol)
                      => NewOrders(symbol) = {}
               /\ Cardinality({id \in NewOrders(symbol) :
                                   orders'[id].side = "sell"}) <= 1
               /\ Cardinality({id \in NewOrders(symbol) :
                                   orders'[id].side = "buy"}) <= 1
               /\ \A id \in NewOrders(symbol) :
                      orders'[id].original_amount = Targets[symbol]
    ]_vars

C17_Witness ==
    /\ call.op = "backfill"
    /\ ~call.exc
    /\ \E id \in OrderIds :
           id \in DOMAIN watched_orders /\ watched_orders[id].symbol = "ETCUSD"
    /\ \A id \in DOMAIN orders \ OrderIds : orders[id].symbol = "ETHUSD"
    /\ \E s, b \in DOMAIN orders \ OrderIds :
           /\ orders[s].side = "sell" /\ orders[b].side = "buy"
           /\ s \in DOMAIN paired_orders /\ paired_orders[s] = b

PassesTests(order) ==
    /\ order.symbol \in {"ETCUSD", "ETHUSD"}
    /\ order.symbol = "ETCUSD" => order.original_amount = 1
    /\ order.symbol = "ETHUSD" => order.original_amount = 2
    /\ order.is_live
    /\ order.type = "exchange limit"

\* C18: after _check_new_watched_orders the ledger holds every listed order
\* whose symbol is a target, whose original amount is the target's unit,
\* that is live and of type 'exchange limit'; the call adds no order failing
\* one of these tests, refreshes only the snapshot of ids already watched,
\* and removes no entry.
C18_DiscoverAddsExactlyMatchingOrders ==
    [][call'.op = "discover" =>
        /\ \A id \in DOMAIN orders :
               PassesTests(orders[id]) =>
                   id \in DOMAIN watched_orders'
                   /\ watched_orders'[id] = orders[id]
        /\ \A id \in DOMAIN watched_orders' \ DOMAIN watched_orders :
               id \in DOMAIN orders /\ PassesTests(orders[id])
        /\ \A id \in DOMAIN watched_orders :
               /\ id \in DOMAIN watched_orders'
               /\ watched_orders'[id] =
                      IF id \in DOMAIN orders THEN orders[id]
                      ELSE watched_orders[id]
    ]_vars

C18_Witness ==
    /\ call.op = "discover"
    /\ call.changed
    /\ \E id \in DOMAIN orders :
           /\ id \notin DOMAIN watched_orders
           /\ orders[id].symbol = "ETHUSD"
           /\ orders[id].type = "limit"
    /\ \E id \in DOMAIN orders :
           id \in DOMAIN watched_orders /\ watched_orders[id] = orders[id]

\* C19: a second _check_new_watched_orders in a row, the exchange list
\* unchanged, leaves the ledger as the first call left it and leaves the
\* pairing table unchanged.
C19_DiscoverTwiceSameLedger ==
    [][(call.op = "discover" /\ call'.op = "discover") =>
        /\ orders' = orders
        /\ watched_orders' = watched_orders
        /\ paired_orders' = paired_orders
    ]_vars

C19_Witness ==
    /\ call.op = "discover"
    /\ call.runs = 2
    /\ call.changed
    /\ DOMAIN paired_orders # {}
    /\ \E id \in DOMAIN orders : id \notin DOMAIN watched_orders

(***************************************************************************)
(* Properties of run() and of the notifier (SpecRun)                       *)
(***************************************************************************)

\* C21: an exception that leaves one iteration of run() is notified once
\* and ends the loop by being re-raised, except a BitfinexClientError whose
\* text contains ERR_RATE_LIMIT: then the loop sleeps RATE_LIMIT_TIME and
\* goes on with the next iteration.
C21_ExceptionNotifiedOnceAndReraised ==
    (run.bot \in Bots /\ run.exc.kind # "none") =>
        IF run.exc.kind = "BitfinexClientError"
           /\ run.exc.text = "ERR_RATE_LIMIT"
        THEN /\ run.phase = "loop"
             /\ run.raised = NoExc
             /\ run.sleptNow = RATE_LIMIT_TIME
        ELSE /\ run.phase = "ended"
             /\ run.raised = run.exc
             /\ run.calls = 1
             /\ run.posted = 1
             /\ run.sleptNow = 0

\* C22: a failure of the Slack post inside log is swallowed: it never
\* leaves log as an exception into the loop, never stops the steps of a
\* reaction halfway, and never ends a bot.
C22_NotifierFailureSwallowed ==
    /\ run.exc.text # "slack"
    /\ run.done # run.all => run.exc.text # "slack"
    /\ run.raised.text # "slack"

(***************************************************************************)
(* The nonce of signed requests (SpecApi)                                  *)
(***************************************************************************)

\* C23: of two signed requests a client sends one after the other, retries
\* of one call included, the later one carries a strictly greater nonce,
\* the clock never going backwards.
C23_NonceStrictlyIncreasing ==
    http.nonceStep # NoNonce => http.nonceStep > 0

(***************************************************************************)
(* The pairing table when the watched orders are logged (Spec)             *)
(***************************************************************************)

\* C24: whenever _log_watched_orders runs, each id of the pairing table is
\* watched and so is its partner, so looking up the partner of a watched
\* order never fails, after any external cancellations, executions and
\* failed sibling cancellations, also in an iteration that follows one a
\* rate-limit error aborted.
C24_PairedOrdersWatchedWhenLogged ==
    pc = "log" =>
        \A id \in Ids :
            paired[id] # NoId => id \in watched /\ paired[id] \in watched

(***************************************************************************)
(* Recording an execution and creating its new pair (Spec)                 *)
(***************************************************************************)

Did(l, s) == \E i \in DOMAIN l.steps : l.steps[i] = s

\* C25: each executed order id is recorded to the executed_orders sink at
\* most once and triggers the creation of a new pair at most once, also when
\* the loop continues after a rate-limit error raised in the middle of a
\* reaction; a recorded execution is always followed by its pair creation
\* unless the order is suppressed as a should-be-cancelled order.
C25_RecordedOnceThenPaired ==
    [][\A l \in {last', iter'.aborted} :
          (pc = "react" /\ Did(l, "record"))
          => /\ l.id \notin executed_orders
             /\ l.id \in executed_orders'
             /\ l.id \notin watched'
             /\ l.suppressed \/ Did(l, "place")]_vars

(***************************************************************************)
(* trade_hbot: reconnects, timeouts, retries and counter-orders (SpecHbot) *)
(***************************************************************************)

\* C26: after a reconnect, once the new order snapshot is received, every
\* order that was in the local table before the disconnect and is absent
\* from the new snapshot is handled as executed (handle_executed_order with
\* normal=False).
C26_MissingOrdersHandledAsExecuted ==
    [][(/\ hb'.last.op = "routine"
        /\ ~hb.received_order_snapshot
        /\ hb'.received_order_snapshot)
       => \A o \in hb.held : o.id \in hb'.last.fixed]_vars

Retried(list) == SelectSeq(list, LAMBDA e : e.retry > 0)

SameOrder(e, f) == e.price = f.price /\ e.amount = f.amount

\* C27: an unconfirmed order that times out is removed from the unconfirmed
\* list and, when retry_in_timeout is set and its retry count is positive,
\* is submitted again with the same price, the same amount and a retry
\* count one lower.
C27_TimeoutResubmitsSameOrder ==
    [][(/\ hb'.last.op = "routine"
        /\ hb'.last.k > 0
        /\ hb.received_order_snapshot)
       => LET old == SubSeq(hb.unconfirm_orders, 1, hb'.last.k)
              again == IF hb.retry_order_in_timeout THEN Retried(old)
                       ELSE << >>
          IN  /\ hb'.unconfirm_orders =
                     SubSeq(hb.unconfirm_orders, hb'.last.k + 1,
                            Len(hb.unconfirm_orders)) \o hb'.last.out
              /\ Len(hb'.last.out) = Len(again)
              /\ \A j \in DOMAIN again :
                    /\ SameOrder(hb'.last.out[j], again[j])
                    /\ hb'.last.out[j].retry = again[j].retry - 1]_vars

\* C28: one logical order is submitted at most 1 + NO_BALANCE_RETRY_TIMES
\* times over any interleaving of error notifications and timeouts: every
\* re-submission carries a retry count one lower than the entry it
\* replaces, an entry with retry count 0 is never re-submitted, and a
\* 'minimum size' error is never retried.
C28_RetryChainBounded ==
    /\ \A i \in DOMAIN hb.unconfirm_orders :
          LET e == hb.unconfirm_orders[i]
          IN  /\ e.nth <= 1 + NO_BALANCE_RETRY_TIMES
              /\ e.retry >= 0
              /\ e.retry = NO_BALANCE_RETRY_TIMES - (e.nth - 1)
    /\ (hb.last.op = "order_error" /\ hb.last.order.status = "minimum size")
       => hb.last.out = << >>

C28_Witness ==
    /\ hb.last.op \in {"order_error", "routine"}
    /\ \E j \in DOMAIN hb.last.out :
          /\ hb.last.out[j].nth = 1 + NO_BALANCE_RETRY_TIMES
          /\ hb.last.out[j].retry = 0

\* the handlers that are given one order update
OrderOps == {"order_new", "order_executed", "order_repeated", "order_canceled"}

Sends(s) == s.last.out # << >>

\* counter-orders follow a complete fill of an order of the bot only, and a
\* filled order of another origin leaves the table without a new order
FilledBotOrdersOnly ==
    /\ (hb'.last.op \in OrderOps /\ Sends(hb'))
       => /\ hb'.last.order.amount = 0
          /\ IsBotOrder(hb'.last.order)
    /\ (/\ hb'.last.op \in {"order_executed", "order_repeated"}
        /\ ~IsBotOrder(hb'.last.order))
       => /\ ~Sends(hb')
          /\ hb'.last.order.id \notin TableIds(hb')
    /\ hb'.last.op = "snapshot" => ~Sends(hb')

\* the orders the snapshot of this step reported as filled in part, and
\* what the snapshot without them would have left
PartialOrders == {o \in hb.book : o.id \in hb'.last.partial}

WithoutPartial ==
    ReceivedOrders(HbStep("snapshot", NoOrder), hb.book \ PartialOrders, FALSE)

Confirms(o, e) ==
    /\ IsClose(e.amount, o.amount_orig, 1)
    /\ IsClose(e.price, o.price, 1) \/ e.price = 0

Matches(e, s) ==
    \/ \E o \in s.orders :
          IsClose(o.amount_orig, e.amount, 1) /\ IsClose(o.price, e.price, 1)
    \/ \E i \in DOMAIN s.unconfirm_orders :
          /\ IsClose(s.unconfirm_orders[i].amount, e.amount, 1)
          /\ IsClose(s.unconfirm_orders[i].price, e.price, 1)

\* C30: set_orders_by_price never submits an order when an order of the same
\* price and amount (within 1%) is in the confirmed table or in the
\* unconfirmed list, so handling the same execution twice places no
\* duplicate counter-orders while the first ones are pending or active.
C30_NoDuplicateCounterOrders ==
    [][(hb'.last.op \in OrderOps \cup {"snapshot"})
       => /\ \A j \in DOMAIN hb'.last.out : ~Matches(hb'.last.out[j], hb)
          /\ \A j, k \in DOMAIN hb'.last.out :
                (j # k) => ~SameOrder(hb'.last.out[j], hb'.last.out[k])
          /\ hb'.last.op = "order_repeated"
             => \A j \in DOMAIN hb'.last.out :
                   \A k \in DOMAIN hb.last.out :
                      ~SameOrder(hb'.last.out[j], hb.last.out[k])]_vars

C30_Witness ==
    /\ hb.last.op = "order_repeated"
    /\ IsBotOrder(hb.last.order)
    /\ ~Sends(hb)
    /\ Len(hb.unconfirm_orders) = 2
    /\ \A i \in DOMAIN hb.unconfirm_orders : hb.unconfirm_orders[i].nth = 1

\* what a tick made: orders, requests to cancel, entries taken off the lists
Created(s) == s.last.out # << >> \/ s.last.cancels # {} \/ s.last.removed # {}

InitOrders(price) ==
    {[price |-> GetLowerPrice(price, 1), amount |-> CfgAmount],
     [price |-> GetHigherPrice(price, CfgProfit), amount |-> -CfgAmount]}

RecoverOrders(s) ==
    {[price |-> GetLowerPrice(
                    LowestPrice({o \in s.orders : o.amount_orig < 0}),
                    CfgProfit + 1),
      amount |-> CfgAmount]}

Submitted(e, s) ==
    \E j \in DOMAIN s.last.out : SameOrder(s.last.out[j], e)

\* the tick is let through only with both snapshots of this connection, and
\* a reset closes the gate
GateFollowsSnapshots ==
    /\ (ht'.last.op = "tick" /\ Created(ht'))
       => /\ ht.got = {"orders", "wallets"}
          /\ ht'.last.gate
    /\ ht'.last.op = "reset"
       => /\ ~ht'.received_order_snapshot
          /\ ~ht'.received_wallet_snapshot
          /\ ht'.got = {}

\* C31 as stated: no init or recover order is created from a tick until
\* both snapshots of the current connection have been received, a reset
\* closes the gate until both new snapshots arrive, and a pair leaves the
\* init or recover list only after its orders were submitted.
C31_RemovedAfterSubmission ==
    [][/\ GateFollowsSnapshots
       /\ (ht'.last.op = "tick" /\ ht'.last.removed # {})
          => ht'.last.out # << >>]_vars

\* C31, corrected: the gate as stated; a pair leaves the init or recover
\* list only in a tick that went through set_orders_by_price or the check
\* of the recover order for it, which submits each order of the pair unless
\* one of its price and amount is in the table or the unconfirmed list or,
\* for the buy of an init, the balance has reached the limit; a pair that
\* waits for currency stays in its list.
C31_RemovedAfterPlacement ==
    [][/\ GateFollowsSnapshots
       /\ ht'.last.op = "tick"
          => \A symbol \in ht'.last.removed :
                /\ symbol \in ht.init_pairs
                   => /\ GetRemainTimes(ht.num_coins) > NUM_ORDERS_TO_HOLD
                      /\ \A e \in InitOrders(ht'.last_price) :
                            \/ Submitted(e, ht')
                            \/ Matches(e, [ht EXCEPT !.orders = {}])
                            \/ e.amount > 0 /\ IsReachLimit(ht.num_coins)
                /\ symbol \in ht.recover_pairs
                   => \A e \in RecoverOrders(ht) :
                         Submitted(e, ht') \/ Matches(e, ht)]_vars

C31_Witness ==
    /\ ht.last.op = "tick"
    /\ ht.opened = MaxTickOpened
    /\ ht.last.gate
    /\ ht.last.removed = HbSymbols
    /\ Len(ht.last.out) = 2
    /\ ht.last.cancels # {}

\* C32: a CANCELED update for an id that is not in the order table leaves
\* the table as it is, does not end the bot, and the other account events
\* queued for the same pass of check_events are processed in that pass.
C32_UnknownCancelIsSkipped ==
    [][ht'.last.op = "account"
       => /\ ht'.phase = "events"
          /\ TableIds(ht') =
                (TableIds(ht) \cup {ht.order_new[i].id :
                                       i \in DOMAIN ht.order_new})
                  \ {ht.order_cancel[i].id : i \in DOMAIN ht.order_cancel}
          /\ ht'.last.left = 0]_vars

DecNonNegative(d) == DecGe(d, Dec(0))

\* C33: within one iteration the cached balances are decreased by what
\* every placed order commits (coin by the amount of a sell, fiat by price
\* times amount of a buy), so over the pair creations that share one
\* snapshot no cached available balance becomes negative and the sum
\* committed from a wallet does not exceed the balance that was fetched.
C33_CachedBalancesCoverOrders ==
    (pair.phase = "cached" /\ pair.bot = "trade_bot")
    => /\ pair.coin.available = pair.fetched.coin.available - pair.spent.coin
       /\ pair.fiat.available =
              DecSub(pair.fetched.fiat.available, pair.spent.fiat)
       /\ pair.coin.available >= 0
       /\ DecNonNegative(pair.fiat.available)
       /\ pair.spent.coin <= pair.fetched.coin.available
       /\ DecGe(pair.fetched.fiat.available, pair.spent.fiat)

C33_Witness ==
    /\ pair.phase = "cached"
    /\ pair.bot = "trade_bot"
    /\ pair.spent.coin >= 2 * pair.target.unit
    /\ pair.coin.available < 2 * pair.target.unit
    /\ DecGe(pair.spent.fiat, DecTimes(pair.res.buy.price, 2 * pair.target.unit))
    /\ pair.res.buy.out = "skipped"

(***************************************************************************)
(* C34: the ledger after clean_up_orders                                   *)
(***************************************************************************)

\* the step that ends clean_up_orders with every cancel answered "ok"
CleanUpSucceeded ==
    /\ pc \in {"cleanup", "cleanup_cancel"}
    /\ pc' = "discover"
    /\ cancelFailed' = {}

\* the first Backfill after such a clean-up: the bot has not polled or
\* placed anything yet, and everything it watches it cancelled itself
FirstBackfill ==
    /\ pc = "backfill"
    /\ pc' = "check"
    /\ cancelFailed = {}
    /\ watched \subseteq cancelOk
    /\ executed_orders = {}
    /\ paired = NoPairs

\* C34: when clean_up_orders ends with every cancel succeeding, no cancelled
\* order is left in the watched ledger, and the first Backfill of the loop
\* finds no watched order and places the initial pair
C34_CleanUpEmptiesLedger ==
    [][/\ CleanUpSucceeded
          => \A id \in watched' : exch'[id] # "cancelled"
       /\ FirstBackfill
          => (watched = {} /\ watched' # {})]_vars

(***************************************************************************)
(* C35 - C37: Intervals and _fetch_one_currency                            *)
(***************************************************************************)

\* the maximal runs of seconds of [start, end] that no interval of data
\* covers
MaximalGaps(data, start, end) ==
    LET free == (start .. end) \ Covered(data)
    IN  {it \in (start .. end) \X (start .. end) :
           /\ it[1] <= it[2]
           /\ (it[1] .. it[2]) \subseteq free
           /\ it[1] - 1 \notin free
           /\ it[2] + 1 \notin free}

Elements(s) == {s[i] : i \in 1 .. Len(s)}

\* C35: Intervals.sub(start, end) returns exactly the maximal sub-intervals
\* of [start, end] that no stored interval covers, each of them once
C35_SubReturnsUncoveredParts ==
    ws.last.op = "sub"
    => /\ Elements(ws.last.result)
          = MaximalGaps(ws.data, ws.last.start, ws.last.end)
       /\ Len(ws.last.result) = Cardinality(Elements(ws.last.result))

\* sorted, start <= end, and at least one second between two intervals
WellFormed(data) ==
    /\ \A i \in 1 .. Len(data) : data[i][1] <= data[i][2]
    /\ \A i \in 1 .. Len(data) - 1 : data[i][2] + 1 < data[i + 1][1]

\* C36: after any sequence of Intervals.add calls the stored intervals are
\* sorted, have start <= end, are pairwise disjoint and not adjacent, and
\* cover exactly the seconds of the added ranges; an add with end < start
\* changes nothing
C36_AddKeepsIntervalsNormal ==
    /\ WellFormed(ws.data)
    /\ Covered(ws.data) = ws.added
    /\ (ws.last.op = "add" /\ ws.last.end < ws.last.start)
       => ws.data = ws.last.before

\* an add that joined stored intervals
C36_Witness ==
    /\ ws.last.op = "add"
    /\ Len(ws.last.before) = 3
    /\ Len(ws.data) = 1
    /\ WellFormed(ws.data)
    /\ Covered(ws.data) = ws.added

\* C37: a running _fetch_one_currency returns, whatever the exchange
\* holds, and when it has returned the fetched intervals cover the range
\* it was called with
C37_FetchTerminatesAndCovers ==
    /\ [](ws.last.op = "returned"
          => (ws.last.start .. ws.last.end) \subseteq Covered(ws.data))
    /\ (ws.phase = "fetch" ~> ws.phase # "fetch")

(***************************************************************************)
(* C38: the transfers of LendBotControl.check_balance                      *)
(***************************************************************************)

\* C38: check_balance issues a transfer only when enabled and with the
\* exchange balance above funding * start_threshold; the amount is
\* positive and leaves the exchange wallet at or above the minimum required
\* balance; two transfers are at least MOVE_WALLET_COOLDOWN_SEC apart
C38_TransferPositiveBoundedAndRare ==
    (lb.last.op = "check_balance" /\ lb.last.moved)
    => /\ lb.enable
       /\ Above(lb.last.exchange_balance, lb.last.funding_balance,
                CfgStartThreshold)
       /\ lb.last.amount > 0
       /\ lb.last.exchange_balance - lb.last.amount
          >= lb.minimum_required_balance
       /\ lb.last.prev # NoTime
          => lb.last.at - lb.last.prev >= MOVE_WALLET_COOLDOWN_SEC

\* a second transfer, a cooldown after one that was refused, cut down to
\* what the minimum required balance allows
C38_Witness ==
    /\ lb.last.op = "check_balance"
    /\ lb.last.moved
    /\ lb.last.prev # NoTime
    /\ lb.last.at - lb.last.prev = MOVE_WALLET_COOLDOWN_SEC
    /\ lb.minimum_required_balance > 0
    /\ lb.last.amount
       = lb.last.exchange_balance - lb.minimum_required_balance
    /\ lb.last.amount
       < TargetAmount(lb.last.exchange_balance, lb.last.funding_balance)

====
